---- MODULE Spec2Model ----
(***************************************************************************)
(* Canvas State Service of excalidesk (src/main/mcp/canvas-server.ts):     *)
(* the in-memory element store, the WebSocket peer set with its broadcast  *)
(* fan-out, and the pending-request maps that park blocking HTTP calls     *)
(* until an editor peer posts a result.                                     *)
(*                                                                         *)
(* Every Express / ws handler runs to completion on the Node event loop,   *)
(* so each handler is one action.  The variable io holds what the last     *)
(* handler run read and wrote, in program order: the inbound request or    *)
(* WebSocket message, every broadcast (the frame and the peers it was      *)
(* handed to ws.send for), and every HTTP response written.  An element is *)
(* a record of the fields a client gave it and of the fields the server    *)
(* adds: id, version and the time stamps createdAt and updatedAt.  Every    *)
(* reading of the clock gives the one value Now.                            *)
(***************************************************************************)
EXTENDS Integers, Sequences, FiniteSets, TLC

\* ---------------------------------------------------------------- bounds
\* Longest element list a request body carries.
MaxLen == 2
\* Number of correlated requests (export image, viewport) issued in a run.
MaxReq == 2

\* ------------------------------------------------------------ value sets
Peers == {"p1", "p2"}
\* Ids a client puts in an element, and ids generateId() can draw.
Ids == {"a", "b"}
GenIds == {"g1"}
Xs == {0, 1}
\* The JavaScript value undefined, where it is used as a Map key or an id.
Undef == "undefined"
\* No peer: the exclude argument of broadcast when it is not given.
NoPeer == "none"
\* No error reported.
NoError == ""

\* The closed set of element type tags (EXCALIDRAW_ELEMENT_TYPES).
ElementTypes ==
    {"rectangle", "ellipse", "diamond", "text", "line", "arrow", "freedraw",
     "image", "frame"}
\* The keys CreateElementSchema declares, among the fields modelled here.
SchemaKeys == {"id", "type", "x", "y", "points", "start", "end"}
\* new Date().toISOString()
Now == "now"

\* Element bodies a client sends: with an id, or without one.
IdBodies ==
    {[id |-> "a", type |-> "rectangle", x |-> v, y |-> 0] : v \in Xs}
    \cup {[id |-> "b", type |-> "rectangle", x |-> 0, y |-> 0]}
ElemBodies == IdBodies \cup {[type |-> "rectangle", x |-> 0, y |-> 0]}
\* Bodies the create schema rejects: no type, a type outside the enum, no
\* x, no y.
BadBodies ==
    {[id |-> "a"],
     [id |-> "a", type |-> "star", x |-> 0, y |-> 0],
     [id |-> "a", type |-> "rectangle", y |-> 0],
     [id |-> "a", type |-> "rectangle", x |-> 0]}
\* Updates: the id addressed and the field set (Partial<Element>).
Updates == {<<"a", [x |-> v]>> : v \in Xs} \cup {<<"b", [x |-> 0]>>}
\* Element lists of POST /canvas, canvas_sync and batch bodies: ids may
\* repeat and may be missing.
ListBodies ==
    {[id |-> "a", type |-> "rectangle", x |-> 0, y |-> 0],
     [id |-> "a", type |-> "rectangle", x |-> 1, y |-> 0],
     [type |-> "rectangle", x |-> 0, y |-> 0]}
BodyLists == UNION {[1..n -> ListBodies] : n \in 0..MaxLen}
\* Element lists whose elements all carry an id.
IdLists == UNION {[1..n -> {b \in ListBodies : "id" \in DOMAIN b}] : n \in 0..MaxLen}
\* Result payloads an editor peer posts.
Payloads == {"d1", "d2"}
Formats == {"png", "svg"}

VARIABLES
    elements,           \* Map<string, ServerElement>, in insertion order
    canvasState,        \* {elements, appState, files}
    clients,            \* Set<WebSocket>
    readyState,         \* readyState of each peer's socket
    pendingExports,     \* keys of Map<string, PendingExport>
    pendingViewports,   \* keys of Map<string, PendingViewport>
    timers,             \* request ids whose setTimeout is armed
    calls,              \* the parked HTTP calls, by request id
    issued,             \* how many request ids generateId() has handed out
    reported,           \* per parked call, the error a peer reported for it
    snapshots,          \* Map<string, Snapshot>, in insertion order
    io,                 \* what the last handler run read and wrote
    sup,                \* MCPProcessManager: its fields, its children, timers
    ipc,                \* server context and the mcp:start / mcp:stop runs
    fsys,               \* the files the file-system commands work on
    hook,               \* useCanvasSync: refs, sockets, timers
    editor              \* ExcalidrawCanvas: refs, scene, pending autosave

vars == <<elements, canvasState, clients, readyState, pendingExports,
          pendingViewports, timers, calls, issued, reported, snapshots, io,
          sup, ipc, fsys, hook, editor>>

\* The canvas server's own state, and the state of the other components.
serverVars == <<elements, canvasState, clients, readyState, pendingExports,
                pendingViewports, timers, calls, issued, reported, snapshots, io>>
extVars == <<sup, ipc, fsys, hook, editor>>

storeVars == <<elements, canvasState>>
peerVars == <<clients, readyState>>
corrVars == <<pendingExports, pendingViewports, timers, calls, issued, reported>>

\* ------------------------------------------------------ JavaScript values
\* {...a, ...b}
Spread(a, b) ==
    [f \in (DOMAIN a) \cup (DOMAIN b) |-> IF f \in DOMAIN b THEN b[f] ELSE a[f]]

\* el.id, undefined when the field is absent
IdOf(el) == IF "id" \in DOMAIN el THEN el.id ELSE Undef
\* el.type, undefined when the field is absent
TypeOf(el) == IF "type" \in DOMAIN el THEN el.type ELSE Undef

\* Map.prototype: keys, has, get, set (in place when the key exists, else
\* appended), delete, values; and a set that moves an existing key to the
\* end.
MapKeys(m) == {m[i].key : i \in DOMAIN m}
MapHas(m, k) == k \in MapKeys(m)
MapGet(m, k) == (CHOOSE e \in {m[i] : i \in DOMAIN m} : e.key = k).el
MapSetMoveLast(m, k, v) ==
    Append(SelectSeq(m, LAMBDA e : e.key # k), [key |-> k, el |-> v])
MapSet(m, k, v) ==
    IF MapHas(m, k)
    THEN [i \in DOMAIN m |-> IF m[i].key = k THEN [key |-> k, el |-> v] ELSE m[i]]
    ELSE Append(m, [key |-> k, el |-> v])
MapDelete(m, k) == SelectSeq(m, LAMBDA e : e.key # k)
MapValues(m) == [i \in DOMAIN m |-> m[i].el]

RECURSIVE SetAll(_, _)
\* list.forEach((el) => map.set(el.id, el))
SetAll(m, list) ==
    IF list = <<>> THEN m
    ELSE SetAll(MapSet(m, IdOf(Head(list)), Head(list)), Tail(list))

\* generateId(): a random id, never one that is in use.
FreshIds == GenIds \ MapKeys(elements)

\* params.id || this.generateId(): the ids the element can be given.
IdOrFresh(body) ==
    IF IdOf(body) \notin {Undef, ""} THEN {body.id} ELSE FreshIds

\* ------------------------------------------------------------- io events
\* An HTTP request of the store routes, and one of the correlated routes
\* with the body it carried.
Route(route) == [ev |-> "req", route |-> route]
Req(route, body) == [ev |-> "req", route |-> route, body |-> body]
\* A GET or DELETE request on an element route: the id of the path.
ById(route, id) == [ev |-> "req", route |-> route, id |-> id]
\* A PUT request on an element route: the id of the path, the body.
Patch(route, id, updates) ==
    [ev |-> "req", route |-> route, id |-> id, updates |-> updates]
\* An inbound WebSocket message of peer p.
WsIn(p, type) == [ev |-> "ws", from |-> p, type |-> type]
\* An inbound element_updated message of peer p: data.id, data.updates.
WsPatch(p, id, updates) ==
    [ev |-> "ws", from |-> p, type |-> "element_updated", id |-> id,
     updates |-> updates]
\* One frame handed to ws.send for each peer of targets.
Sent(targets, frame) == [ev |-> "send", to |-> targets, frame |-> frame]
\* call 0 is the request the handler is serving; call n > 0 is the parked
\* call with request id n.
Http(call, status, body) == [ev |-> "http", call |-> call, status |-> status, body |-> body]
\* A logger.warn line about the error a peer reported for request r.
Warn(r, error) == [ev |-> "warn", requestId |-> r, error |-> error]
\* A setTimeout callback that runs.
Timer(r) == [ev |-> "timer", call |-> r]
\* A GET request with a query string: the parsed query.
Query(route, query) == [ev |-> "req", route |-> route, query |-> query]
\* client.send(payload) threw for the client.
SendThrew(client) == [ev |-> "throw", to |-> client]

\* ---------------------------------------------------------- broadcasting
OpenClients == {c \in clients : readyState[c] = "OPEN"}

\* A broadcast that stops after the first client it sends to.
BroadcastOnce(message, exclude) ==
    LET targets == {c \in clients : c # exclude /\ readyState[c] = "OPEN"}
    IN  IF targets = {} THEN <<>>
        ELSE <<Sent({CHOOSE c \in targets : TRUE}, message)>>

\* broadcast(message, exclude): the message goes to every client that is
\* not the excluded one and whose socket is OPEN.
Broadcast(message, exclude) ==
    LET targets == {c \in clients : c # exclude /\ readyState[c] = "OPEN"}
    IN  IF targets = {} THEN <<>> ELSE <<Sent(targets, message)>>

SyncMapFromCanvasState(cs) ==
    SetAll(<<>>, SelectSeq(cs.elements, LAMBDA el : IdOf(el) # Undef))

SyncCanvasStateFromMap(cs, m) == [cs EXCEPT !.elements = MapValues(m)]

CanvasSyncFrame(cs) == [type |-> "canvas_sync", data |-> cs]

\* A broadcastCanvasSync that skips syncCanvasStateFromMap: the frame carries
\* the canvas state as the previous sync left it.
BroadcastCanvasSyncStale(cs, m, exclude) ==
    [cs |-> cs, sends |-> Broadcast(CanvasSyncFrame(cs), exclude)]

\* broadcastCanvasSync(exclude) on store m: the canvas state it leaves and
\* the frames it sends.
BroadcastCanvasSync(cs, m, exclude) ==
    LET synced == SyncCanvasStateFromMap(cs, m)
    IN  [cs |-> synced, sends |-> Broadcast(CanvasSyncFrame(synced), exclude)]

\* ------------------------------------------------------------------ Init
\* --------------------------------------------- the other components' start
\* The children one manager spawns in a run of the model.
MaxChildren == 6
\* this.process === null
NoChild == 0
MAX_RESTARTS == 3
\* new MCPProcessManager(port): no child, nothing pending.  process is the
\* handle (NoChild for null); children is the state of every child the
\* manager may spawn; restartTimers counts the setTimeout callbacks that
\* are armed; spawned numbers the children in the order of their spawn,
\* sinceStart counts the children spawned since the last start(), last is
\* the manager's last step, stopped says that stop() was called and start()
\* was not since.
SupInit ==
    [process |-> NoChild, restartCount |-> 0, isShuttingDown |-> FALSE,
     children |-> [c \in 1..MaxChildren |-> "none"],
     restartTimers |-> 0, spawned |-> 0, sinceStart |-> 0, last |-> "new",
     stopped |-> FALSE]
\* The mcp:start / mcp:stop handler runs that can be in flight together,
\* and the CanvasServer and MCPProcessManager objects a run of the model
\* constructs.
MaxRuns == 2
MaxInst == 3
\* serverCtx.canvasServer === null, serverCtx.mcpProcess === null
NoInst == 0
\* serverCtx before any mcp:start, no handler in flight.  servers and
\* managers hold the state of every object by the order of construction;
\* a run is idle or suspended at an await; completed is the kind of the
\* handler that returned last.
IpcInit ==
    [ctx |-> [canvasServer |-> NoInst, mcpProcess |-> NoInst],
     servers |-> [i \in 1..MaxInst |-> "none"],
     managers |-> [i \in 1..MaxInst |-> "none"],
     nservers |-> 0, nmanagers |-> 0,
     runs |-> [r \in 1..MaxRuns |-> [kind |-> "none", pc |-> "idle", srv |-> NoInst]],
     completed |-> "none"]
\* A path is the sequence of its segments; the paths of files are taken
\* from the user data directory, which holds canvases/ and trash/.
BaseDir == <<"canvases">>
TrashDir == <<"trash">>
\* The file system before any command: a file of the user data directory
\* beside the two directories, which are empty.  touched is the set of
\* paths the last command handed to an fs call; metas is the content of
\* the .meta files: the original path by trash name.
FsInit ==
    [files |-> {<<"secret">>}, metas |-> {}, touched |-> {},
     cmd |-> "none", path |-> <<>>, result |-> "none"]
\* The WebSockets one hook opens in a run of the model.
MaxSockets == 4
\* wsRef.current === null, reconnectTimerRef.current === null
NoSocket == 0
\* useCanvasSync before its effect runs.  active says that the effect has
\* run and its cleanup has not; sockets is the readyState of every socket
\* by the order of construction; a reconnect timer is named by the socket
\* whose close event armed it, armed is the set of those that have neither
\* fired nor been cleared.
HookInit ==
    [active |-> FALSE, wsRef |-> NoSocket, reconnectTimerRef |-> NoSocket,
     sockets |-> [k \in 1..MaxSockets |-> "none"], nsockets |-> 0,
     armed |-> {}]
\* The canvas files, and the reset timers of isSyncingRef that can be
\* pending together.
Files == {"A", "B"}
MaxResets == 2
\* selectedFile === null, currentFileRef.current === null
NoFile == "none"
\* lastDataRef.current === null, saveTimerRef.current === null, nothing sent
NoData == [file |-> NoFile, origin |-> "none"]
\* A scene is known by the file that was selected when the editor produced
\* it and by what produced it: the file's content on disk, an edit of the
\* user, or a canvas_sync frame applied by onSync.
SceneOf(file, origin) == [file |-> file, origin |-> origin]
\* ExcalidrawCanvas before a file is selected.  saveTimer is the scene and
\* the path the armed autosave timer closed over, resets the number of
\* armed setTimeout(() => isSyncingRef.current = false), disk the content
\* of the canvas files, sent the scene of the last sendSync.
EditorInit ==
    [selectedFile |-> NoFile, currentFileRef |-> NoFile, lastDataRef |-> NoData,
     saveTimer |-> NoData, isSyncingRef |-> FALSE, resets |-> 0,
     disk |-> [f \in Files |-> SceneOf(f, "disk")], sent |-> NoData]

Init ==
    /\ elements = <<>>
    /\ canvasState = [elements |-> <<>>, appState |-> "A0", files |-> "F0"]
    /\ clients = {}
    /\ readyState = [p \in Peers |-> "CLOSED"]
    /\ pendingExports = {}
    /\ pendingViewports = {}
    /\ timers = {}
    /\ calls = [r \in 1..MaxReq |-> [kind |-> "none", state |-> "none", resp |-> <<>>]]
    /\ issued = 0
    /\ reported = [r \in 1..MaxReq |-> NoError]
    /\ snapshots = <<>>
    /\ io = <<>>
    /\ sup = SupInit
    /\ ipc = IpcInit
    /\ fsys = FsInit
    /\ hook = HookInit
    /\ editor = EditorInit

\* ------------------------------------------------------ WebSocket facade
\* A connection handler that sends the scene before the element list.
ConnectSyncFirst(p) ==
    /\ readyState[p] = "CLOSED"
    /\ p \notin clients
    /\ clients' = clients \cup {p}
    /\ readyState' = [readyState EXCEPT ![p] = "OPEN"]
    /\ canvasState' = SyncCanvasStateFromMap(canvasState, elements)
    /\ io' = << [ev |-> "connection", from |-> p],
                Sent({p}, CanvasSyncFrame(canvasState')),
                Sent({p}, [type |-> "initial_elements", elements |-> MapValues(elements)]),
                Sent({p}, [type |-> "sync_status", elementCount |-> Len(elements)]) >>
    /\ UNCHANGED <<snapshots, elements, corrVars, extVars>>

\* wss.on("connection"): add the peer, send the three initial frames.
Connect(p) ==
    /\ readyState[p] = "CLOSED"
    /\ p \notin clients
    /\ clients' = clients \cup {p}
    /\ readyState' = [readyState EXCEPT ![p] = "OPEN"]
    /\ canvasState' = SyncCanvasStateFromMap(canvasState, elements)
    /\ io' = << [ev |-> "connection", from |-> p],
                Sent({p}, [type |-> "initial_elements", elements |-> MapValues(elements)]),
                Sent({p}, [type |-> "sync_status", elementCount |-> Len(elements)]),
                Sent({p}, CanvasSyncFrame(canvasState')) >>
    /\ UNCHANGED <<snapshots, elements, corrVars, extVars>>

\* The peer's close frame arrived: the socket is CLOSING until its close
\* event is delivered.
PeerClosing(p) ==
    /\ readyState[p] = "OPEN"
    /\ readyState' = [readyState EXCEPT ![p] = "CLOSING"]
    /\ io' = <<>>
    /\ UNCHANGED <<snapshots, clients, storeVars, corrVars, extVars>>

\* ws.on("close") / ws.on("error")
Close(p) ==
    /\ p \in clients
    /\ clients' = clients \ {p}
    /\ readyState' = [readyState EXCEPT ![p] = "CLOSED"]
    /\ io' = <<[ev |-> "close", from |-> p]>>
    /\ UNCHANGED <<snapshots, storeVars, corrVars, extVars>>

\* Bodies of POST /canvas and of an inbound canvas_sync: each of elements,
\* appState and files is present or absent.
CanvasDatas ==
    {[elements |-> l] : l \in BodyLists}
    \cup {<<>>, [appState |-> "A1", files |-> "F1"]}
\* Bodies and frames that carry no elements field.
NoElementsDatas == {d \in CanvasDatas : "elements" \notin DOMAIN d}

\* if (x !== undefined) canvasState.x = x, for the three fields
AssignCanvasState(cs, data) == Spread(cs, data)

\* handleWebSocketMessage, case "canvas_sync"
WsCanvasSync(p, data) ==
    /\ p \in OpenClients
    /\ LET cs == AssignCanvasState(canvasState, data)
           m == IF "elements" \in DOMAIN data THEN SyncMapFromCanvasState(cs) ELSE elements
       IN  /\ canvasState' = cs
           /\ elements' = m
           /\ io' = <<WsIn(p, "canvas_sync")>> \o Broadcast(CanvasSyncFrame(cs), p)
    /\ UNCHANGED <<snapshots, peerVars, corrVars, extVars>>

\* handleWebSocketMessage, case "element_created"
WsElementCreated(p, element) ==
    /\ p \in OpenClients
    /\ LET m == MapSet(elements, IdOf(element), element)
           b == BroadcastCanvasSync(canvasState, m, p)
       IN  /\ elements' = m
           /\ canvasState' = b.cs
           /\ io' = <<WsIn(p, "element_created")>> \o b.sends
    /\ UNCHANGED <<snapshots, peerVars, corrVars, extVars>>

\* handleWebSocketMessage, case "element_updated"
WsElementUpdated(p, id, updates) ==
    /\ p \in OpenClients
    /\ IF MapHas(elements, id)
       THEN LET m == MapSet(elements, id, Spread(MapGet(elements, id), updates))
                b == BroadcastCanvasSync(canvasState, m, p)
            IN  /\ elements' = m
                /\ canvasState' = b.cs
                /\ io' = <<WsPatch(p, id, updates)>>
                         \o b.sends
       ELSE /\ io' = <<WsPatch(p, id, updates)>>
            /\ UNCHANGED storeVars
    /\ UNCHANGED <<snapshots, peerVars, corrVars, extVars>>

\* handleWebSocketMessage, case "element_deleted"
WsElementDeleted(p, id) ==
    /\ p \in OpenClients
    /\ IF MapHas(elements, id)
       THEN LET m == MapDelete(elements, id)
                b == BroadcastCanvasSync(canvasState, m, p)
            IN  /\ elements' = m
                /\ canvasState' = b.cs
                /\ io' = <<WsIn(p, "element_deleted")>> \o b.sends
       ELSE /\ io' = <<WsIn(p, "element_deleted")>>
            /\ UNCHANGED storeVars
    /\ UNCHANGED <<snapshots, peerVars, corrVars, extVars>>

\* handleWebSocketMessage: a message without data, or with a tag the switch
\* has no case for.
WsIgnored(p, type) ==
    /\ p \in OpenClients
    /\ io' = <<WsIn(p, type)>>
    /\ UNCHANGED <<snapshots, storeVars, peerVars, corrVars, extVars>>

\* ---------------------------------------------------------- REST, legacy
\* GET /canvas, GET /snapshot
GetCanvas ==
    /\ canvasState' = SyncCanvasStateFromMap(canvasState, elements)
    /\ io' = <<Route("GET /canvas"), Http(0, 200, canvasState')>>
    /\ UNCHANGED <<snapshots, elements, peerVars, corrVars, extVars>>

\* POST /canvas
PostCanvas(body) ==
    /\ LET cs == AssignCanvasState(canvasState, body)
           m == SyncMapFromCanvasState(cs)
           b == BroadcastCanvasSync(cs, m, NoPeer)
       IN  /\ elements' = m
           /\ canvasState' = b.cs
           /\ io' = <<Route("POST /canvas")>> \o b.sends
                    \o <<Http(0, 200, [success |-> TRUE])>>
    /\ UNCHANGED <<snapshots, peerVars, corrVars, extVars>>

\* POST /elements
PostElements(body) ==
    /\ \E id \in IdOrFresh(body) :
         LET element == Spread(body, [id |-> id])
             m == MapSet(elements, id, element)
             b == BroadcastCanvasSync(canvasState, m, NoPeer)
         IN  /\ elements' = m
             /\ canvasState' = b.cs
             /\ io' = <<Route("POST /elements")>> \o b.sends
                      \o <<Http(0, 200, [success |-> TRUE, element |-> element])>>
    /\ UNCHANGED <<snapshots, peerVars, corrVars, extVars>>

\* PUT /elements/:id
PutElements(id, updates) ==
    /\ IF ~MapHas(elements, id)
       THEN /\ io' = <<Patch("PUT /elements/:id", id, updates),
                       Http(0, 404, [error |-> "Element not found"])>>
            /\ UNCHANGED storeVars
       ELSE LET m == MapSet(elements, id, Spread(MapGet(elements, id), updates))
                b == BroadcastCanvasSync(canvasState, m, NoPeer)
            IN  /\ elements' = m
                /\ canvasState' = b.cs
                /\ io' = <<Patch("PUT /elements/:id", id, updates)>> \o b.sends
                         \o <<Http(0, 200, [success |-> TRUE, element |-> MapGet(m, id)])>>
    /\ UNCHANGED <<snapshots, peerVars, corrVars, extVars>>

\* GET /elements/:id
GetElements(id) ==
    /\ io' = <<ById("GET /elements/:id", id),
               IF MapHas(elements, id)
               THEN Http(0, 200, [element |-> MapGet(elements, id)])
               ELSE Http(0, 404, [error |-> "Element not found"])>>
    /\ UNCHANGED <<snapshots, storeVars, peerVars, corrVars, extVars>>

\* A delete that does not look the id up first.
DeleteElementsUnchecked(id) ==
    /\ LET m == MapDelete(elements, id)
           b == BroadcastCanvasSync(canvasState, m, NoPeer)
       IN  /\ elements' = m
           /\ canvasState' = b.cs
           /\ io' = <<ById("DELETE /elements/:id", id)>> \o b.sends
                    \o <<Http(0, 200, [success |-> TRUE])>>
    /\ UNCHANGED <<snapshots, peerVars, corrVars, extVars>>

\* DELETE /elements/:id
DeleteElements(id) ==
    /\ IF ~MapHas(elements, id)
       THEN /\ io' = <<ById("DELETE /elements/:id", id),
                       Http(0, 404, [error |-> "Element not found"])>>
            /\ UNCHANGED storeVars
       ELSE LET m == MapDelete(elements, id)
                b == BroadcastCanvasSync(canvasState, m, NoPeer)
            IN  /\ elements' = m
                /\ canvasState' = b.cs
                /\ io' = <<ById("DELETE /elements/:id", id)>> \o b.sends
                         \o <<Http(0, 200, [success |-> TRUE])>>
    /\ UNCHANGED <<snapshots, peerVars, corrVars, extVars>>

\* POST /clear
PostClear ==
    /\ LET b == BroadcastCanvasSync(canvasState, <<>>, NoPeer)
       IN  /\ elements' = <<>>
           /\ canvasState' = b.cs
           /\ io' = <<Route("POST /clear")>> \o b.sends
                    \o <<Http(0, 200, [success |-> TRUE])>>
    /\ UNCHANGED <<snapshots, peerVars, corrVars, extVars>>

\* --------------------------------------------------------- REST, /api/...
\* z.object(...).parse keeps the declared keys and strips the others.
SchemaStrip(body) == [f \in (DOMAIN body) \cap SchemaKeys |-> body[f]]

\* A create schema that asks for the type and x only.
CreateElementSchemaNoY(body) ==
    /\ "type" \in DOMAIN body
    /\ body.type \in ElementTypes
    /\ "x" \in DOMAIN body

\* CreateElementSchema.parse succeeds: type is one of the enum, x and y are
\* there.
CreateElementSchemaOk(body) ==
    /\ "type" \in DOMAIN body
    /\ body.type \in ElementTypes
    /\ "x" \in DOMAIN body
    /\ "y" \in DOMAIN body

\* UpdateElementSchema.parse succeeds: every key is optional but id, and a
\* type that is given is one of the enum.
UpdateElementSchemaOk(body) ==
    /\ "id" \in DOMAIN body
    /\ "type" \in DOMAIN body => body.type \in ElementTypes

\* resolveArrowBindings.  The element a reference names: the last element
\* of the batch with that id, else the store's entry under that id.  NoEl
\* when there is none.
NoEl == <<>>
TargetOf(batch, store, ref) ==
    LET hits == {i \in DOMAIN batch : IdOf(batch[i]) = ref.id}
    IN  IF hits # {} THEN batch[CHOOSE i \in hits : \A j \in hits : j <= i]
        ELSE IF MapHas(store, ref.id) THEN MapGet(store, ref.id)
        ELSE NoEl
\* const GAP = 8
GAP == 8
Binding(target) == [elementId |-> IdOf(target), focus |-> 0, gap |-> GAP]
\* The offset from the arrow's first point to its second, which the
\* resolver computes from the shapes' outlines; the geometry is not
\* modelled, nor is the move of the arrow's x and y to its first point.
EndOffset == <<"dx", "dy">>
\* One element of the batch, resolved.
ResolveOne(el, batch, store) ==
    IF \/ TypeOf(el) \notin {"arrow", "line"}
       \/ {"start", "end"} \cap DOMAIN el = {}
    THEN el
    ELSE LET startEl == IF "start" \in DOMAIN el
                        THEN TargetOf(batch, store, el.start) ELSE NoEl
             endEl == IF "end" \in DOMAIN el
                      THEN TargetOf(batch, store, el.end) ELSE NoEl
             rest == [f \in (DOMAIN el) \ {"start", "end"} |-> el[f]]
             pointed == Spread(rest, [points |-> <<(<<0, 0>>), EndOffset>>])
             withStart == IF startEl # NoEl
                          THEN Spread(pointed, [startBinding |-> Binding(startEl)])
                          ELSE pointed
         IN  IF endEl # NoEl
             THEN Spread(withStart, [endBinding |-> Binding(endEl)])
             ELSE withStart
ResolveArrowBindings(batch, store) ==
    [i \in DOMAIN batch |-> ResolveOne(batch[i], batch, store)]

\* POST /api/elements
ApiPostElements(body) ==
    /\ IF ~CreateElementSchemaOk(body)
       THEN /\ io' = <<Req("POST /api/elements", body),
                       Http(0, 400, [success |-> FALSE])>>
            /\ UNCHANGED storeVars
       ELSE \E id \in IdOrFresh(body) :
              LET params == SchemaStrip(body)
                  built == Spread(Spread([id |-> id], params),
                                  [createdAt |-> Now, updatedAt |-> Now,
                                   version |-> 1])
                  element == ResolveArrowBindings(<<built>>, elements)[1]
                  m == MapSet(elements, id, element)
                  b == BroadcastCanvasSync(canvasState, m, NoPeer)
              IN  /\ elements' = m
                  /\ canvasState' = b.cs
                  /\ io' = <<Req("POST /api/elements", body)>>
                           \o Broadcast([type |-> "element_created", element |-> element], NoPeer)
                           \o b.sends
                           \o <<Http(0, 200, [success |-> TRUE, element |-> element])>>
    /\ UNCHANGED <<snapshots, peerVars, corrVars, extVars>>

\* POST /api/elements when client.send throws for the open client f in the
\* broadcast of element_created: the element is already in the map; the
\* clients that clients.forEach visited before f have the frame, the
\* others do not (clients is a Set in connection order, either order of
\* two clients can be the case); nothing catches the exception before
\* the handler's own catch, which answers 400.
ApiPostElementsSendThrows(body, f) ==
    /\ CreateElementSchemaOk(body)
    /\ f \in OpenClients
    /\ \E id \in IdOrFresh(body), got \in SUBSET (OpenClients \ {f}) :
          LET params == SchemaStrip(body)
              built == Spread(Spread([id |-> id], params),
                              [createdAt |-> Now, updatedAt |-> Now,
                               version |-> 1])
              element == ResolveArrowBindings(<<built>>, elements)[1]
          IN  /\ elements' = MapSet(elements, id, element)
              /\ io' = <<Req("POST /api/elements", body)>>
                       \o (IF got = {} THEN <<>>
                           ELSE <<Sent(got, [type |-> "element_created",
                                             element |-> element])>>)
                       \o <<SendThrew(f), Http(0, 400, [success |-> FALSE])>>
    /\ UNCHANGED <<snapshots, canvasState, peerVars, corrVars, extVars>>

\* PUT /api/elements/:id
ApiPutElements(id, body) ==
    /\ LET updates == SchemaStrip(Spread([id |-> id], body))
       IN  IF ~UpdateElementSchemaOk(Spread([id |-> id], body))
           THEN /\ io' = <<Patch("PUT /api/elements/:id", id, body),
                           Http(0, 400, [success |-> FALSE])>>
                /\ UNCHANGED storeVars
           ELSE IF ~MapHas(elements, id)
           THEN /\ io' = <<Patch("PUT /api/elements/:id", id, body),
                           Http(0, 404, [success |-> FALSE])>>
                /\ UNCHANGED storeVars
           ELSE LET updated == Spread(Spread(MapGet(elements, id), updates),
                                      [updatedAt |-> Now])
                    m == MapSet(elements, id, updated)
                    b == BroadcastCanvasSync(canvasState, m, NoPeer)
                IN  /\ elements' = m
                    /\ canvasState' = b.cs
                    /\ io' = <<Patch("PUT /api/elements/:id", id, body)>>
                             \o Broadcast([type |-> "element_updated", element |-> updated], NoPeer)
                             \o b.sends
                             \o <<Http(0, 200, [success |-> TRUE, element |-> updated])>>
    /\ UNCHANGED <<snapshots, peerVars, corrVars, extVars>>

\* GET /api/elements/:id
ApiGetElement(id) ==
    /\ io' = <<ById("GET /api/elements/:id", id),
               IF MapHas(elements, id)
               THEN Http(0, 200, [success |-> TRUE, element |-> MapGet(elements, id)])
               ELSE Http(0, 404, [success |-> FALSE])>>
    /\ UNCHANGED <<snapshots, storeVars, peerVars, corrVars, extVars>>

\* String(v) of a number of the model.
Digits == <<"0", "1", "2", "3">>
\* The element fields that hold numbers.
NumberFields == {"x", "y", "width", "height"}
\* String(el[key])
StringOf(el, key) == IF key \in NumberFields THEN Digits[el[key] + 1] ELSE el[key]

\* The filter of GET /api/elements/search: the type, if asked for, is the
\* element's; every other key of the query is a field of the element
\* whose String() is the value asked for.
SearchFilter(el, query) ==
    /\ ("type" \in DOMAIN query => TypeOf(el) = query.type)
    /\ \A key \in DOMAIN query \ {"type"} :
          /\ key \in DOMAIN el
          /\ StringOf(el, key) = query[key]

\* GET /api/elements/search
ApiSearch(query) ==
    /\ LET results == SelectSeq(MapValues(elements),
                                LAMBDA el : SearchFilter(el, query))
       IN  io' = <<Query("GET /api/elements/search", query),
                   Http(0, 200, [success |-> TRUE, elements |-> results,
                                 count |-> Len(results)])>>
    /\ UNCHANGED <<snapshots, storeVars, peerVars, corrVars, extVars>>

\* A clear that also empties the snapshot registry.
ApiDeleteClearAll ==
    /\ LET b == BroadcastCanvasSync(canvasState, <<>>, NoPeer)
       IN  /\ elements' = <<>>
           /\ canvasState' = b.cs
           /\ io' = <<Route("DELETE /api/elements/clear")>>
                    \o Broadcast([type |-> "canvas_cleared"], NoPeer)
                    \o b.sends
                    \o <<Http(0, 200, [success |-> TRUE])>>
    /\ snapshots' = <<>>
    /\ UNCHANGED <<peerVars, corrVars, extVars>>

\* DELETE /api/elements/clear
ApiDeleteClear ==
    /\ LET b == BroadcastCanvasSync(canvasState, <<>>, NoPeer)
       IN  /\ elements' = <<>>
           /\ canvasState' = b.cs
           /\ io' = <<Route("DELETE /api/elements/clear")>>
                    \o Broadcast([type |-> "canvas_cleared"], NoPeer)
                    \o b.sends
                    \o <<Http(0, 200, [success |-> TRUE])>>
    /\ UNCHANGED <<snapshots, peerVars, corrVars, extVars>>

\* DELETE /api/elements/:id
ApiDeleteElement(id) ==
    /\ IF ~MapHas(elements, id)
       THEN /\ io' = <<ById("DELETE /api/elements/:id", id),
                       Http(0, 404, [success |-> FALSE])>>
            /\ UNCHANGED storeVars
       ELSE LET m == MapDelete(elements, id)
                b == BroadcastCanvasSync(canvasState, m, NoPeer)
            IN  /\ elements' = m
                /\ canvasState' = b.cs
                /\ io' = <<ById("DELETE /api/elements/:id", id)>>
                         \o Broadcast([type |-> "element_deleted", elementId |-> id], NoPeer)
                         \o b.sends
                         \o <<Http(0, 200, [success |-> TRUE])>>
    /\ UNCHANGED <<snapshots, peerVars, corrVars, extVars>>

\* The ids generateId() hands to the id-less bodies of a batch: distinct
\* fresh ids, Undef where the body carries its own.
BatchIds(list) ==
    {g \in [DOMAIN list -> GenIds \cup {Undef}] :
        /\ \A i \in DOMAIN list :
             IF IdOf(list[i]) \notin {Undef, ""} THEN g[i] = Undef ELSE g[i] \in FreshIds
        /\ \A i, j \in DOMAIN list : (i # j /\ g[i] # Undef) => g[i] # g[j]}

\* POST /api/elements/batch
ApiBatch(body) ==
    /\ IF "elements" \notin DOMAIN body
       THEN /\ io' = <<Req("POST /api/elements/batch", body),
                       Http(0, 400, [success |-> FALSE])>>
            /\ UNCHANGED storeVars
       ELSE \E g \in BatchIds(body.elements) :
              LET mapped ==
                      [i \in DOMAIN body.elements |->
                          Spread(body.elements[i],
                                 [id |-> IF IdOf(body.elements[i]) \notin {Undef, ""}
                                         THEN body.elements[i].id ELSE g[i],
                                  createdAt |-> Now, updatedAt |-> Now,
                                  version |-> 1])]
                  createdElements == ResolveArrowBindings(mapped, elements)
                  m == SetAll(elements, createdElements)
                  b == BroadcastCanvasSync(canvasState, m, NoPeer)
              IN  /\ elements' = m
                  /\ canvasState' = b.cs
                  /\ io' = <<Req("POST /api/elements/batch", body)>>
                           \o Broadcast([type |-> "elements_batch_created",
                                         elements |-> createdElements], NoPeer)
                           \o b.sends
                           \o <<Http(0, 200, [success |-> TRUE, elements |-> createdElements,
                                              count |-> Len(createdElements)])>>
    /\ UNCHANGED <<snapshots, peerVars, corrVars, extVars>>

\* A sync import that does not clear the store first.
ApiSyncMerge(body) ==
    /\ IF "elements" \notin DOMAIN body
       THEN /\ io' = <<Req("POST /api/elements/sync", body),
                       Http(0, 400, [success |-> FALSE])>>
            /\ UNCHANGED storeVars
       ELSE LET beforeCount == Len(elements)
                m == SetAll(elements, body.elements)
                b == BroadcastCanvasSync(canvasState, m, NoPeer)
            IN  /\ elements' = m
                /\ canvasState' = b.cs
                /\ io' = <<Req("POST /api/elements/sync", body)>>
                         \o Broadcast([type |-> "elements_synced", elements |-> body.elements,
                                       count |-> Len(body.elements)], NoPeer)
                         \o b.sends
                         \o <<Http(0, 200, [success |-> TRUE, count |-> Len(body.elements),
                                            beforeCount |-> beforeCount,
                                            afterCount |-> Len(m)])>>
    /\ UNCHANGED <<snapshots, peerVars, corrVars, extVars>>

\* POST /api/elements/sync
ApiSync(body) ==
    /\ IF "elements" \notin DOMAIN body
       THEN /\ io' = <<Req("POST /api/elements/sync", body),
                       Http(0, 400, [success |-> FALSE])>>
            /\ UNCHANGED storeVars
       ELSE LET beforeCount == Len(elements)
                m == SetAll(<<>>, body.elements)
                b == BroadcastCanvasSync(canvasState, m, NoPeer)
            IN  /\ elements' = m
                /\ canvasState' = b.cs
                /\ io' = <<Req("POST /api/elements/sync", body)>>
                         \o Broadcast([type |-> "elements_synced", elements |-> body.elements,
                                       count |-> Len(body.elements)], NoPeer)
                         \o b.sends
                         \o <<Http(0, 200, [success |-> TRUE, count |-> Len(body.elements),
                                            beforeCount |-> beforeCount,
                                            afterCount |-> Len(m)])>>
    /\ UNCHANGED <<snapshots, peerVars, corrVars, extVars>>

\* Bodies of the batch and sync endpoints: {elements: [...]} or no array.
BatchBodies == {<<>>} \cup {[elements |-> l] : l \in BodyLists}
SyncBodies == {<<>>} \cup {[elements |-> l] : l \in IdLists}

\* ------------------------------------------------------------- snapshots
\* Bodies of POST /api/snapshots: no name, a blank one, a name, a name with
\* blanks around it.
SnapshotBodies ==
    {<<>>, [name |-> "  "], [name |-> "n1"], [name |-> " n1 "]}
\* Names asked for on GET /api/snapshots/:name and on restore.
SnapshotNames == {"n1", " n1 ", "n2"}

\* String.prototype.trim, on the names above
Trim(name) ==
    CASE name = "  " -> ""
      [] name = " n1 " -> "n1"
      [] OTHER -> name

\* this.snapshots.set(name, snapshot), and a registry that keeps the
\* snapshot a name already has
SnapshotsSetOnce(reg, name, snapshot) ==
    IF MapHas(reg, name) THEN reg ELSE MapSet(reg, name, snapshot)
SnapshotsSet(reg, name, snapshot) ==
    MapSet(reg, name, snapshot)

\* POST /api/snapshots
PostSnapshots(body) ==
    /\ LET name == Trim(IF "name" \in DOMAIN body THEN body.name ELSE "")
           snapshot == [name |-> name,
                        elements |-> MapValues(elements),
                        createdAt |-> Now]
       IN  IF name = ""
           THEN /\ io' = <<Req("POST /api/snapshots", body),
                           Http(0, 400, [success |-> FALSE])>>
                /\ UNCHANGED snapshots
           ELSE /\ snapshots' = SnapshotsSet(snapshots, name, snapshot)
                /\ io' = <<Req("POST /api/snapshots", body),
                           Http(0, 200, [success |-> TRUE, name |-> name,
                                         elementCount |-> Len(snapshot.elements)])>>
    /\ UNCHANGED <<storeVars, peerVars, corrVars, extVars>>

\* GET /api/snapshots
GetSnapshots ==
    /\ io' = <<Route("GET /api/snapshots"),
               Http(0, 200,
                    [success |-> TRUE,
                     snapshots |->
                        [i \in DOMAIN snapshots |->
                            [name |-> snapshots[i].el.name,
                             createdAt |-> snapshots[i].el.createdAt,
                             elementCount |-> Len(snapshots[i].el.elements)]]])>>
    /\ UNCHANGED <<snapshots, storeVars, peerVars, corrVars, extVars>>

\* GET /api/snapshots/:name
GetSnapshot(name) ==
    /\ io' = <<Req("GET /api/snapshots/:name", [name |-> name]),
               IF MapHas(snapshots, name)
               THEN Http(0, 200, [success |-> TRUE,
                                  snapshot |-> MapGet(snapshots, name)])
               ELSE Http(0, 404, [success |-> FALSE])>>
    /\ UNCHANGED <<snapshots, storeVars, peerVars, corrVars, extVars>>

\* snapshotRestore(name), the restore_snapshot tool: the store's contents
\* are replaced by the elements of the snapshot, NotFound when no snapshot
\* has the name.
RestoreSnapshot(name) ==
    /\ IF ~MapHas(snapshots, name)
       THEN /\ io' = <<Req("restore_snapshot", [name |-> name]),
                       Http(0, 404, [success |-> FALSE])>>
            /\ UNCHANGED storeVars
       ELSE LET m == SetAll(<<>>, MapGet(snapshots, name).elements)
                b == BroadcastCanvasSync(canvasState, m, NoPeer)
            IN  /\ elements' = m
                /\ canvasState' = b.cs
                /\ io' = <<Req("restore_snapshot", [name |-> name])>>
                         \o b.sends
                         \o <<Http(0, 200, [success |-> TRUE])>>
    /\ UNCHANGED <<snapshots, peerVars, corrVars, extVars>>

\* ------------------------------------------------------------ correlator
\* A promise settles once: resolve / reject on a settled promise do nothing.
\* Settling runs the .then / .catch callback, which writes the response of
\* the parked call.
Settle(c, outcome, response) ==
    IF c.state = "pending"
    THEN [c EXCEPT !.state = outcome, !.resp = Append(@, response)]
    ELSE c

\* The response the parked call writes when its promise settles, as an io
\* event; none when the promise was settled before.
SettleIo(r, response) ==
    IF calls[r].state = "pending" THEN <<Http(r, response.status, response.body)>> ELSE <<>>

\* A setTimeout that arms nothing, and a clearTimeout that leaves the timer
\* armed.
SetTimeoutNever(ts, r) == ts
ClearTimeoutNot(ts, r) == ts

\* setTimeout(callback, ms) for request r, and clearTimeout of its handle.
SetTimeout(ts, r) == ts \cup {r}
ClearTimeout(ts, r) == ts \ {r}

ExportBodies == {[format |-> "gif"]} \cup {[format |-> f] : f \in Formats}

\* POST /api/export/image
PostExportImage(body) ==
    /\ IF "format" \notin DOMAIN body \/ body.format \notin {"png", "svg"}
       THEN /\ io' = <<Req("POST /api/export/image", body),
                       Http(0, 400, [success |-> FALSE])>>
            /\ UNCHANGED corrVars
       ELSE IF Cardinality(clients) = 0
       THEN /\ io' = <<Req("POST /api/export/image", body),
                       Http(0, 503, [success |-> FALSE])>>
            /\ UNCHANGED corrVars
       ELSE /\ issued < MaxReq
            /\ LET requestId == issued + 1
               IN  /\ issued' = requestId
                   /\ timers' = SetTimeout(timers, requestId)
                   /\ pendingExports' = pendingExports \cup {requestId}
                   /\ calls' = [calls EXCEPT ![requestId] =
                                   [kind |-> "export", state |-> "pending", resp |-> <<>>]]
                   /\ io' = <<Req("POST /api/export/image", body)>>
                            \o Broadcast([type |-> "export_image_request",
                                          requestId |-> requestId,
                                          format |-> body.format,
                                          background |-> TRUE], NoPeer)
            /\ UNCHANGED <<pendingViewports, reported>>
    /\ UNCHANGED <<snapshots, storeVars, peerVars, extVars>>

ExportResultBodies ==
    {[format |-> "png", data |-> "d1"]}
    \cup {[requestId |-> r, format |-> "png", data |-> d] : r \in 1..MaxReq, d \in Payloads}
    \cup {[requestId |-> r, error |-> "e1"] : r \in 1..MaxReq}

\* A variant of the error branch that fails the parked call with the peer's
\* message instead of leaving it parked.
ExportResultErrorRejects(body) ==
    LET r == body.requestId
        response == [status |-> 500, body |-> [success |-> FALSE, error |-> body.error]]
    IN  /\ timers' = ClearTimeout(timers, r)
        /\ pendingExports' = pendingExports \ {r}
        /\ reported' = [reported EXCEPT ![r] = NoError]
        /\ calls' = [calls EXCEPT ![r] = Settle(@, "rejected", response)]
        /\ io' = <<Req("POST /api/export/image/result", body),
                   Warn(r, body.error),
                   Http(0, 200, [success |-> TRUE])>>
                 \o SettleIo(r, response)
        /\ UNCHANGED <<pendingViewports, issued>>

\* POST /api/export/image/result, the branch for a result that carries an
\* error: the error is logged and the entry is left for another peer.
ExportResultError(body) ==
    /\ io' = <<Req("POST /api/export/image/result", body),
               Warn(body.requestId, body.error),
               Http(0, 200, [success |-> TRUE])>>
    /\ reported' = [reported EXCEPT ![body.requestId] = body.error]
    /\ UNCHANGED <<pendingExports, pendingViewports, timers, calls, issued, extVars>>

\* POST /api/export/image/result
ExportResult(body) ==
    /\ IF "requestId" \notin DOMAIN body
       THEN /\ io' = <<Req("POST /api/export/image/result", body),
                       Http(0, 400, [success |-> FALSE])>>
            /\ UNCHANGED corrVars
       ELSE IF body.requestId \notin pendingExports
       THEN /\ io' = <<Req("POST /api/export/image/result", body),
                       Http(0, 200, [success |-> TRUE])>>
            /\ UNCHANGED corrVars
       ELSE IF "error" \in DOMAIN body
       THEN ExportResultError(body)
       ELSE LET r == body.requestId
                response == [status |-> 200,
                             body |-> [success |-> TRUE, format |-> body.format,
                                       data |-> body.data]]
            IN  /\ timers' = ClearTimeout(timers, r)
                /\ pendingExports' = pendingExports \ {r}
                /\ reported' = [reported EXCEPT ![r] = NoError]
                /\ calls' = [calls EXCEPT ![r] = Settle(@, "fulfilled", response)]
                /\ io' = <<Req("POST /api/export/image/result", body),
                           Http(0, 200, [success |-> TRUE])>>
                         \o SettleIo(r, response)
                /\ UNCHANGED <<pendingViewports, issued>>
    /\ UNCHANGED <<snapshots, storeVars, peerVars, extVars>>

\* The setTimeout callback of POST /api/export/image fires.
ExportTimeout(r) ==
    /\ r \in timers
    /\ calls[r].kind = "export"
    /\ LET response == [status |-> 500,
                        body |-> [success |-> FALSE,
                                  error |-> "Export timed out after 30 seconds"]]
       IN  /\ timers' = timers \ {r}
           /\ pendingExports' = pendingExports \ {r}
           /\ reported' = [reported EXCEPT ![r] = NoError]
           /\ calls' = [calls EXCEPT ![r] = Settle(@, "rejected", response)]
           /\ io' = <<Timer(r)>> \o SettleIo(r, response)
    /\ UNCHANGED <<snapshots, pendingViewports, issued, storeVars, peerVars, extVars>>

ViewportBodies == {<<>>, [scrollToContent |-> TRUE]}

\* POST /api/viewport
PostViewport(body) ==
    /\ IF Cardinality(clients) = 0
       THEN /\ io' = <<Req("POST /api/viewport", body),
                       Http(0, 503, [success |-> FALSE])>>
            /\ UNCHANGED corrVars
       ELSE /\ issued < MaxReq
            /\ LET requestId == issued + 1
               IN  /\ issued' = requestId
                   /\ timers' = SetTimeout(timers, requestId)
                   /\ pendingViewports' = pendingViewports \cup {requestId}
                   /\ calls' = [calls EXCEPT ![requestId] =
                                   [kind |-> "viewport", state |-> "pending", resp |-> <<>>]]
                   /\ io' = <<Req("POST /api/viewport", body)>>
                            \o Broadcast(Spread([type |-> "set_viewport",
                                                 requestId |-> requestId], body), NoPeer)
            /\ UNCHANGED <<pendingExports, reported>>
    /\ UNCHANGED <<snapshots, storeVars, peerVars, extVars>>

ViewportResultBodies ==
    {[success |-> TRUE]}
    \cup {[requestId |-> r] : r \in 1..MaxReq}
    \cup {[requestId |-> r, success |-> FALSE, message |-> "d1"] : r \in 1..MaxReq}
    \cup {[requestId |-> r, success |-> FALSE, error |-> "e1"] : r \in 1..MaxReq}

\* A variant of the error branch that fails the parked call with the peer's
\* message instead of leaving it parked.
ViewportResultErrorRejects(body) ==
    LET r == body.requestId
        response == [status |-> 500, body |-> [success |-> FALSE, error |-> body.error]]
    IN  /\ timers' = ClearTimeout(timers, r)
        /\ pendingViewports' = pendingViewports \ {r}
        /\ reported' = [reported EXCEPT ![r] = NoError]
        /\ calls' = [calls EXCEPT ![r] = Settle(@, "rejected", response)]
        /\ io' = <<Req("POST /api/viewport/result", body),
                   Warn(r, body.error),
                   Http(0, 200, [success |-> TRUE])>>
                 \o SettleIo(r, response)
        /\ UNCHANGED <<pendingExports, issued>>

\* POST /api/viewport/result, the branch for a result that carries an
\* error: the error is logged and the entry is left for another peer.
ViewportResultError(body) ==
    /\ io' = <<Req("POST /api/viewport/result", body),
               Warn(body.requestId, body.error),
               Http(0, 200, [success |-> TRUE])>>
    /\ reported' = [reported EXCEPT ![body.requestId] = body.error]
    /\ UNCHANGED <<pendingExports, pendingViewports, timers, calls, issued, extVars>>

\* POST /api/viewport/result
ViewportResult(body) ==
    /\ IF "requestId" \notin DOMAIN body
       THEN /\ io' = <<Req("POST /api/viewport/result", body),
                       Http(0, 400, [success |-> FALSE])>>
            /\ UNCHANGED corrVars
       ELSE IF body.requestId \notin pendingViewports
       THEN /\ io' = <<Req("POST /api/viewport/result", body),
                       Http(0, 200, [success |-> TRUE])>>
            /\ UNCHANGED corrVars
       ELSE IF "error" \in DOMAIN body
       THEN ViewportResultError(body)
       ELSE LET r == body.requestId
                message == IF "message" \in DOMAIN body THEN body.message
                           ELSE "Viewport updated"
                response == [status |-> 200,
                             body |-> [success |-> TRUE, message |-> message]]
            IN  /\ timers' = ClearTimeout(timers, r)
                /\ pendingViewports' = pendingViewports \ {r}
                /\ reported' = [reported EXCEPT ![r] = NoError]
                /\ calls' = [calls EXCEPT ![r] = Settle(@, "fulfilled", response)]
                /\ io' = <<Req("POST /api/viewport/result", body),
                           Http(0, 200, [success |-> TRUE])>>
                         \o SettleIo(r, response)
                /\ UNCHANGED <<pendingExports, issued>>
    /\ UNCHANGED <<snapshots, storeVars, peerVars, extVars>>

\* The setTimeout callback of POST /api/viewport fires.
ViewportTimeout(r) ==
    /\ r \in timers
    /\ calls[r].kind = "viewport"
    /\ LET response == [status |-> 500,
                        body |-> [success |-> FALSE,
                                  error |-> "Viewport request timed out after 10 seconds"]]
       IN  /\ timers' = timers \ {r}
           /\ pendingViewports' = pendingViewports \ {r}
           /\ reported' = [reported EXCEPT ![r] = NoError]
           /\ calls' = [calls EXCEPT ![r] = Settle(@, "rejected", response)]
           /\ io' = <<Timer(r)>> \o SettleIo(r, response)
    /\ UNCHANGED <<snapshots, pendingExports, issued, storeVars, peerVars, extVars>>

MermaidBodies == {<<>>, [mermaidDiagram |-> "graph TD; A-->B;"]}

\* POST /api/elements/from-mermaid
PostFromMermaid(body) ==
    /\ IF "mermaidDiagram" \notin DOMAIN body
       THEN io' = <<Req("POST /api/elements/from-mermaid", body),
                    Http(0, 400, [success |-> FALSE])>>
       ELSE io' = <<Req("POST /api/elements/from-mermaid", body)>>
                  \o Broadcast([type |-> "mermaid_convert",
                                mermaidDiagram |-> body.mermaidDiagram], NoPeer)
                  \o <<Http(0, 200, [success |-> TRUE,
                                     mermaidDiagram |-> body.mermaidDiagram,
                                     message |-> "Mermaid diagram sent to frontend for conversion."])>>
    /\ UNCHANGED <<snapshots, storeVars, peerVars, corrVars, extVars>>

MermaidResultBodies ==
    {[elements |-> <<>>],
     [requestId |-> 1, elements |-> <<[id |-> "a", x |-> 0]>>],
     [requestId |-> 1, error |-> "e1"]}

\* POST /api/elements/from-mermaid/result: setupRoutes registers no such
\* route, so Express answers with its default 404.
FromMermaidResult(body) ==
    /\ io' = <<Req("POST /api/elements/from-mermaid/result", body),
               Http(0, 404, <<>>)>>
    /\ UNCHANGED <<snapshots, storeVars, peerVars, corrVars, extVars>>

\* ------------------------------------------------------- specifications
NextPeers ==
    \E p \in Peers : Connect(p) \/ PeerClosing(p) \/ Close(p)

NextWebSocket ==
    \E p \in Peers :
        \/ \E data \in CanvasDatas : WsCanvasSync(p, data)
        \/ \E element \in IdBodies : WsElementCreated(p, element)
        \/ \E u \in Updates : WsElementUpdated(p, u[1], u[2])
        \/ \E id \in Ids : WsElementDeleted(p, id)
        \/ \E type \in {"canvas_sync", "snapshot"} : WsIgnored(p, type)

NextRest ==
    \/ GetCanvas
    \/ \E body \in CanvasDatas : PostCanvas(body)
    \/ \E body \in ElemBodies : PostElements(body)
    \/ \E u \in Updates : PutElements(u[1], u[2])
    \/ \E id \in Ids : DeleteElements(id)
    \/ PostClear
    \/ \E body \in ElemBodies \cup BadBodies : ApiPostElements(body)
    \/ \E u \in Updates : ApiPutElements(u[1], u[2])
    \/ ApiDeleteClear
    \/ \E id \in Ids : ApiDeleteElement(id)
    \/ \E body \in BatchBodies : ApiBatch(body)
    \/ \E body \in SyncBodies : ApiSync(body)

NextCorrelated ==
    \/ \E body \in ExportBodies : PostExportImage(body)
    \/ \E body \in ExportResultBodies : ExportResult(body)
    \/ \E r \in 1..MaxReq : ExportTimeout(r)
    \/ \E body \in ViewportBodies : PostViewport(body)
    \/ \E body \in ViewportResultBodies : ViewportResult(body)
    \/ \E r \in 1..MaxReq : ViewportTimeout(r)
    \/ \E body \in MermaidBodies : PostFromMermaid(body)
    \/ \E body \in MermaidResultBodies : FromMermaidResult(body)

NextSendThrows ==
    \E body \in ElemBodies, f \in Peers : ApiPostElementsSendThrows(body, f)

\* Searches on a store of shapes and texts.  A text is the sequence of its
\* characters, the list of a types parameter the sequence of its names.
SearchElems ==
    {[id |-> "a", type |-> "rectangle", x |-> 0, y |-> 0, width |-> 2, height |-> 1],
     [id |-> "a", type |-> "ellipse", x |-> 1, y |-> 0, width |-> 1, height |-> 1],
     [id |-> "b", type |-> "text", x |-> 1, y |-> 0, text |-> <<"H", "i">>],
     [id |-> "b", type |-> "rectangle", x |-> 0, y |-> 0]}
SearchQueries ==
    {<<>>,
     [type |-> "rectangle"], [type |-> "arrow"],
     [types |-> <<"rectangle", "text">>],
     [x |-> "1"], [type |-> "rectangle", x |-> "0"],
     [minWidth |-> "2"], [maxWidth |-> "1"], [minHeight |-> "1"],
     [maxHeight |-> "0"], [type |-> "rectangle", minWidth |-> "1"],
     [textContains |-> <<"h">>], [textContains |-> <<"I">>]}
NextSearch ==
    \/ \E body \in SearchElems : PostElements(body)
    \/ DeleteElements("a")
    \/ \E query \in SearchQueries : ApiSearch(query)
SpecSearch == Init /\ [][NextSearch]_vars

\* The canvas server.
NextServer ==
    \/ NextPeers \/ NextWebSocket \/ NextRest \/ NextCorrelated
    \/ NextSendThrows
    \/ \E query \in SearchQueries : ApiSearch(query)

\* The REST side of the store alone: requests on the store routes, peers
\* that connect and close.
RestBodies == {b \in ElemBodies : IdOf(b) # "b"}
RestUpdates == {u \in Updates : u[1] = "a"}
NextStoreRest ==
    \/ NextPeers
    \/ GetCanvas
    \/ \E body \in CanvasDatas : PostCanvas(body)
    \/ \E body \in RestBodies : PostElements(body)
    \/ \E u \in RestUpdates : PutElements(u[1], u[2])
    \/ \E id \in {"a"} : DeleteElements(id)
    \/ PostClear
    \/ \E body \in RestBodies \cup BadBodies : ApiPostElements(body)
    \/ \E u \in RestUpdates : ApiPutElements(u[1], u[2])
    \/ ApiDeleteClear
    \/ \E id \in {"a"} : ApiDeleteElement(id)
    \/ \E body \in BatchBodies : ApiBatch(body)
    \/ \E body \in SyncBodies : ApiSync(body)
SpecRest == Init /\ [][NextStoreRest]_vars

\* The WebSocket side of the store alone: peers that connect, send scene
\* mutations and close.
NextStoreWs == NextPeers \/ NextWebSocket
SpecWs == Init /\ [][NextStoreWs]_vars

\* The correlator alone: the store is left as constructed.
NextCorr == NextPeers \/ NextCorrelated
SpecCorr == Init /\ [][NextCorr]_vars

\* The parked calls and their timers, with one editor peer: Node runs the
\* callback of an armed timer once its delay has passed.  The from-mermaid
\* routes park nothing and are left out.
LivePeers == {"p1"}
NextLive ==
    \/ \E p \in LivePeers : Connect(p) \/ PeerClosing(p) \/ Close(p)
    \/ \E body \in ExportBodies : PostExportImage(body)
    \/ \E body \in ExportResultBodies : ExportResult(body)
    \/ \E r \in 1..MaxReq : ExportTimeout(r)
    \/ \E body \in ViewportBodies : PostViewport(body)
    \/ \E body \in ViewportResultBodies : ViewportResult(body)
    \/ \E r \in 1..MaxReq : ViewportTimeout(r)
LiveCorr ==
    /\ Init
    /\ [][NextLive]_vars
    /\ \A r \in 1..MaxReq : WF_vars(ExportTimeout(r)) /\ WF_vars(ViewportTimeout(r))

\* The store and the snapshot registry, with one editor peer: elements are
\* created, patched, deleted, imported and synced while snapshots are taken
\* and read.
SnapPeers == {"p1"}
SnapBodies ==
    {[id |-> "a", type |-> "rectangle", x |-> 0, y |-> 0], [type |-> "rectangle", x |-> 0, y |-> 0]}
SnapLists == {<<>>, <<[id |-> "b", type |-> "rectangle", x |-> 0, y |-> 0]>>}
NextSnapStore ==
    \/ \E p \in SnapPeers :
          \/ Connect(p)
          \/ Close(p)
          \/ \E l \in SnapLists : WsCanvasSync(p, [elements |-> l])
          \/ WsElementCreated(p, [id |-> "b", type |-> "rectangle", x |-> 0, y |-> 0])
          \/ WsElementUpdated(p, "a", [x |-> 1])
          \/ WsElementDeleted(p, "a")
    \/ \E body \in SnapBodies : ApiPostElements(body)
    \/ ApiPutElements("a", [x |-> 1])
    \/ ApiDeleteElement("a")
    \/ ApiDeleteClear
    \/ \E l \in SnapLists : ApiBatch([elements |-> l])
    \/ \E l \in SnapLists : ApiSync([elements |-> l])
NextSnap ==
    \/ NextSnapStore
    \/ \E body \in SnapshotBodies : PostSnapshots(body)
    \/ GetSnapshots
    \/ \E name \in SnapshotNames : GetSnapshot(name)
SpecSnap == Init /\ [][NextSnap]_vars

\* The same with snapshots restored.
NextRestore ==
    \/ NextSnap
    \/ \E name \in SnapshotNames : RestoreSnapshot(name)
SpecRestore == Init /\ [][NextRestore]_vars

\* Requests by id and by snapshot name, with one editor peer, on a store
\* and a registry that hold at most element a and snapshot n1.
LookupPeers == {"p1"}
LookupIds == {"a", "b"}
LookupUpdates == {[x |-> 1], [type |-> "star"]}
NextLookup ==
    \/ \E p \in LookupPeers : Connect(p) \/ Close(p)
    \/ ApiPostElements([id |-> "a", type |-> "rectangle", x |-> 0, y |-> 0])
    \/ PostSnapshots([name |-> "n1"])
    \/ \E id \in LookupIds :
          \/ GetElements(id)
          \/ DeleteElements(id)
          \/ ApiGetElement(id)
          \/ ApiDeleteElement(id)
          \/ \E u \in LookupUpdates : PutElements(id, u) \/ ApiPutElements(id, u)
    \/ \E name \in SnapshotNames : GetSnapshot(name)
SpecLookup == Init /\ [][NextLookup]_vars

\* The sync import, with one editor peer: lists of elements whose ids are
\* distinct, repeated or missing, posted over a store that may hold an
\* element of its own.
SyncPeers == {"p1"}
SyncElems ==
    {[id |-> "a", type |-> "rectangle", x |-> 0, y |-> 0],
     [id |-> "a", type |-> "rectangle", x |-> 1, y |-> 0],
     [id |-> "b", type |-> "rectangle", x |-> 0, y |-> 0],
     [type |-> "rectangle", x |-> 0, y |-> 0]}
SyncLists == UNION {[1..n -> SyncElems] : n \in 0..MaxLen}
NextSync ==
    \/ \E p \in SyncPeers : Connect(p) \/ Close(p)
    \/ ApiPostElements([type |-> "rectangle", x |-> 0, y |-> 0])
    \/ \E body \in {<<>>} \cup {[elements |-> l] : l \in SyncLists} : ApiSync(body)
SpecSync == Init /\ [][NextSync]_vars

\* Arrows and lines, with one editor peer: shapes a and b, arrows and lines
\* that refer to them (or to nothing that exists), created one by one or
\* in a batch with their targets; shapes are deleted and patched.
ArrowPeers == {"p1"}
Shapes ==
    {[id |-> "a", type |-> "rectangle", x |-> 0, y |-> 0],
     [id |-> "b", type |-> "ellipse", x |-> 1, y |-> 0]}
GivenPoints == <<(<<0, 0>>), (<<2, 1>>), (<<4, 0>>)>>
Arrows ==
    {[type |-> "arrow", x |-> 0, y |-> 0, start |-> [id |-> "a"], end |-> [id |-> "b"]],
     [type |-> "line", x |-> 0, y |-> 0, start |-> [id |-> "a"]],
     [type |-> "arrow", x |-> 0, y |-> 0, end |-> [id |-> "zz"]],
     [type |-> "arrow", x |-> 0, y |-> 0],
     [type |-> "line", x |-> 0, y |-> 0, points |-> GivenPoints],
     [type |-> "rectangle", x |-> 0, y |-> 0, start |-> [id |-> "a"]]}
ArrowBatches ==
    {<<ar>> : ar \in Arrows}
    \cup {<<sh, ar>> : sh \in Shapes, ar \in Arrows}
    \cup {<<ar, sh>> : sh \in Shapes, ar \in Arrows}
NextArrows ==
    \/ \E p \in ArrowPeers : Connect(p) \/ Close(p)
    \/ \E body \in Shapes \cup Arrows : ApiPostElements(body)
    \/ \E l \in ArrowBatches : ApiBatch([elements |-> l])
    \/ \E id \in {"a", "b"} \cup GenIds : ApiDeleteElement(id)
    \/ PutElements("a", [id |-> "b"])
SpecArrows == Init /\ [][NextArrows]_vars

\* Mutations from both sides with two editor peers: REST requests and
\* peers' messages change the store while peers connect and close.
OrderBodies ==
    {[id |-> "a", type |-> "rectangle", x |-> v, y |-> 0] : v \in Xs}
OrderLists == {<<>>} \cup {<<b>> : b \in OrderBodies}
NextOrder ==
    \/ NextPeers
    \/ \E body \in OrderBodies : ApiPostElements(body)
    \/ \E body \in OrderBodies : PostElements(body)
    \/ ApiDeleteElement("a")
    \/ \E p \in Peers :
          \/ \E l \in OrderLists : WsCanvasSync(p, [elements |-> l])
          \/ WsCanvasSync(p, [appState |-> "A1"])
          \/ \E body \in OrderBodies : WsElementCreated(p, body)
          \/ WsElementUpdated(p, "a", [x |-> 1])
          \/ WsElementDeleted(p, "a")
SpecOrder == Init /\ [][NextOrder]_vars

\* Whole-canvas updates after mutations of single elements: the legacy
\* routes and the peers' messages, which check no schema, can store an
\* element under a key that is not its id or that is undefined.
NextCanvas ==
    \/ NextPeers
    \/ \E body \in CanvasDatas : PostCanvas(body)
    \/ \E p \in Peers, data \in NoElementsDatas : WsCanvasSync(p, data)
    \/ \E body \in IdBodies : PostElements(body)
    \/ PutElements("a", [id |-> "b"])
    \/ \E p \in Peers, element \in ElemBodies : WsElementCreated(p, element)
    \/ \E id \in Ids : DeleteElements(id)
SpecCanvas == Init /\ [][NextCanvas]_vars

\* Creations whose broadcast may meet a client whose send throws, with two
\* editor peers.
NextSendFail ==
    \/ NextPeers
    \/ \E body \in OrderBodies : ApiPostElements(body)
    \/ \E body \in OrderBodies, f \in Peers :
          ApiPostElementsSendThrows(body, f)
    \/ ApiDeleteElement("a")
SpecSendFail == Init /\ [][NextSendFail]_vars

\* -------------------------------------------------- MCPProcessManager
\* spawnProcess(serverPath): the handle refers to the new child.
SpawnProcess(s) ==
    LET c == s.spawned + 1
    IN  [s EXCEPT !.process = c, !.children[c] = "alive",
                  !.spawned = c, !.sinceStart = @ + 1]

\* start(), with mcp-server.js in place.
SupStart ==
    /\ sup.spawned < MaxChildren
    /\ sup' = [SpawnProcess([sup EXCEPT !.isShuttingDown = FALSE,
                                        !.restartCount = 0,
                                        !.sinceStart = 0,
                                        !.stopped = FALSE])
                 EXCEPT !.last = "start"]
    /\ UNCHANGED <<serverVars, ipc, fsys, hook, editor>>

\* A restart timer whose callback spawns without a look at isShuttingDown.
SupTimerUnchecked ==
    /\ sup.restartTimers > 0
    /\ sup.spawned < MaxChildren
    /\ sup' = [SpawnProcess([sup EXCEPT !.restartTimers = @ - 1])
                 EXCEPT !.last = "timer"]
    /\ UNCHANGED <<serverVars, ipc, fsys, hook, editor>>

\* process.on("exit") of child c: the handle is cleared whichever child it
\* refers to; a restart is scheduled unless the manager is shutting down
\* or has used up its restarts.
SupExit(c) ==
    /\ sup.children[c] \in {"alive", "killed"}
    /\ LET s == [sup EXCEPT !.children[c] = "exited", !.process = NoChild,
                            !.last = "exit"]
       IN  sup' = IF ~s.isShuttingDown /\ s.restartCount < MAX_RESTARTS
                  THEN [s EXCEPT !.restartCount = @ + 1,
                                 !.restartTimers = @ + 1]
                  ELSE s
    /\ UNCHANGED <<serverVars, ipc, fsys, hook, editor>>

\* The setTimeout callback of a scheduled restart.
SupTimer ==
    /\ sup.restartTimers > 0
    /\ sup.isShuttingDown \/ sup.spawned < MaxChildren
    /\ LET s == [sup EXCEPT !.restartTimers = @ - 1, !.last = "timer"]
       IN  sup' = IF ~s.isShuttingDown THEN SpawnProcess(s) ELSE s
    /\ UNCHANGED <<serverVars, ipc, fsys, hook, editor>>

\* stop(): SIGTERM to the child of the handle, the handle is cleared.
SupStop ==
    /\ sup' = [sup EXCEPT !.isShuttingDown = TRUE,
                          !.children = IF sup.process # NoChild
                                       THEN [@ EXCEPT ![sup.process] = "killed"]
                                       ELSE @,
                          !.process = NoChild,
                          !.last = "stop", !.stopped = TRUE]
    /\ UNCHANGED <<serverVars, ipc, fsys, hook, editor>>

\* isRunning(); process.killed is set by kill() only, and stop() clears
\* the handle in the same run.
IsRunning == sup.process # NoChild

\* One manager under every interleaving of start(), stop(), the exit
\* events of its children and its restart timers.
NextSup ==
    \/ SupStart
    \/ SupStop
    \/ SupTimer
    \/ \E c \in 1..MaxChildren : SupExit(c)
SpecSup == Init /\ [][NextSup]_vars

\* One manager as the server context drives it: start() once after the
\* construction, then exits and timers, stop() at any time.
NextSupOnce ==
    \/ (sup.last = "new" /\ SupStart)
    \/ SupStop
    \/ SupTimer
    \/ \E c \in 1..MaxChildren : SupExit(c)
SpecSupOnce == Init /\ [][NextSupOnce]_vars

\* The fields of stored elements, with one editor peer: element bodies with
\* and without an id, with an angle, with a type outside the enum, marked
\* deleted; patches of x, of the angle, of the id and of the type.
FieldPeers == {"p1"}
FieldBodies ==
    {[id |-> "a", type |-> "rectangle", x |-> 0, y |-> 0, angle |-> 0],
     [type |-> "rectangle", x |-> 0, y |-> 0],
     [id |-> "a", type |-> "star", x |-> 0, y |-> 0],
     [id |-> "a", type |-> "rectangle", x |-> 0, y |-> 0, isDeleted |-> TRUE]}
FieldUpdates ==
    {<<"a", [x |-> 1]>>, <<"a", [angle |-> 1]>>, <<"a", [id |-> "b"]>>,
     <<"a", [type |-> "ellipse"]>>}
FieldLists ==
    {<<>>, <<[type |-> "rectangle", x |-> 0, y |-> 0]>>,
     <<[id |-> "a", type |-> "rectangle", x |-> 0, y |-> 0, isDeleted |-> TRUE]>>}
NextFields ==
    \/ \E p \in FieldPeers :
          \/ Connect(p)
          \/ Close(p)
          \/ \E l \in FieldLists : WsCanvasSync(p, [elements |-> l])
          \/ \E body \in FieldBodies : WsElementCreated(p, body)
          \/ \E u \in FieldUpdates : WsElementUpdated(p, u[1], u[2])
          \/ WsElementDeleted(p, "a")
    \/ \E l \in FieldLists : PostCanvas([elements |-> l])
    \/ \E body \in FieldBodies : PostElements(body)
    \/ \E u \in FieldUpdates : PutElements(u[1], u[2])
    \/ DeleteElements("a")
    \/ \E body \in FieldBodies : ApiPostElements(body)
    \/ \E u \in FieldUpdates : ApiPutElements(u[1], u[2])
    \/ ApiDeleteElement("a")
    \/ \E l \in FieldLists : ApiBatch([elements |-> l])
    \/ \E l \in FieldLists : ApiSync([elements |-> l])
SpecFields == Init /\ [][NextFields]_vars

\* ---------------------------------------------------- file-system commands
\* relative.split(/[/\\]/) has a ".." part, or the path is absolute (its
\* first part is empty).
Rejected(relative) ==
    /\ relative # <<>>
    /\ \/ \E i \in DOMAIN relative : relative[i] = ".."
       \/ relative[1] = ""

\* path.normalize of segments: an empty segment is dropped, ".." removes
\* the segment before it.
RECURSIVE Normalize(_)
Normalize(segs) ==
    IF segs = <<>> THEN <<>>
    ELSE LET front == Normalize(SubSeq(segs, 1, Len(segs) - 1))
             last == segs[Len(segs)]
         IN  IF last = "" THEN front
             ELSE IF last = ".."
             THEN (IF front = <<>> THEN <<>> ELSE SubSeq(front, 1, Len(front) - 1))
             ELSE Append(front, last)
\* path.join(dir, relative)
Join(dir, relative) == Normalize(dir \o relative)
\* `${ts}_${originalName}` at the one time of the model, `${name}.meta`
TrashName(name) == "T_" \o name
MetaName(name) == name \o ".meta"
MetaPath(trashPath) ==
    Join(TrashDir, SubSeq(trashPath, 1, Len(trashPath) - 1)
                   \o <<MetaName(trashPath[Len(trashPath)])>>)

\* What a command leaves: the files, the metas, the paths it touched.
Ran(cmd, path, result, files, metas, touched) ==
    [files |-> files, metas |-> metas, touched |-> touched,
     cmd |-> cmd, path |-> path, result |-> result]
Reject(cmd, path) ==
    Ran(cmd, path, "rejected", fsys.files, fsys.metas, {})

\* createCanvas(relativePath)
CreateCanvas(relativePath) ==
    /\ fsys' = IF Rejected(relativePath) THEN Reject("createCanvas", relativePath)
               ELSE LET full == Join(BaseDir, relativePath)
                    IN  Ran("createCanvas", relativePath, "done",
                            fsys.files \cup {full}, fsys.metas, {full})
    /\ UNCHANGED <<serverVars, sup, ipc, hook, editor>>

\* deleteItem(relativePath)
DeleteItem(relativePath) ==
    /\ fsys' = IF Rejected(relativePath) THEN Reject("deleteItem", relativePath)
               ELSE LET full == Join(BaseDir, relativePath)
                    IN  IF full \in fsys.files
                        THEN Ran("deleteItem", relativePath, "done",
                                 fsys.files \ {full}, fsys.metas, {full})
                        ELSE Ran("deleteItem", relativePath, "failed",
                                 fsys.files, fsys.metas, {full})
    /\ UNCHANGED <<serverVars, sup, ipc, hook, editor>>

\* trashItem(relativePath)
TrashItem(relativePath) ==
    /\ fsys' = IF Rejected(relativePath) THEN Reject("trashItem", relativePath)
               ELSE LET source == Join(BaseDir, relativePath)
                        name == TrashName(source[Len(source)])
                        dest == Join(TrashDir, <<name>>)
                        meta == Join(TrashDir, <<MetaName(name)>>)
                    IN  IF source \in fsys.files
                        THEN Ran("trashItem", relativePath, "done",
                                 (fsys.files \ {source}) \cup {dest, meta},
                                 {m \in fsys.metas : m[1] # name}
                                   \cup {<<name, relativePath>>},
                                 {source, dest, meta})
                        ELSE Ran("trashItem", relativePath, "failed",
                                 fsys.files, fsys.metas, {source})
    /\ UNCHANGED <<serverVars, sup, ipc, hook, editor>>

\* restoreItem(trashPath): the .meta file is read first; the path it holds
\* is checked, trashPath is not.
RestoreItem(trashPath) ==
    /\ trashPath # <<>>
    /\ LET source == Join(TrashDir, trashPath)
           metaPath == MetaPath(trashPath)
           held == {m \in fsys.metas : Join(TrashDir, <<MetaName(m[1])>>) = metaPath}
       IN  fsys' =
             IF metaPath \notin fsys.files \/ held = {}
             THEN Ran("restoreItem", trashPath, "failed",
                      fsys.files, fsys.metas, {metaPath})
             ELSE LET original == (CHOOSE m \in held : TRUE)[2]
                      dest == Join(BaseDir, original)
                  IN  IF Rejected(original)
                      THEN Ran("restoreItem", trashPath, "rejected",
                               fsys.files, fsys.metas, {metaPath})
                      ELSE IF source \notin fsys.files
                      THEN Ran("restoreItem", trashPath, "failed",
                               fsys.files, fsys.metas, {metaPath, source, dest})
                      ELSE Ran("restoreItem", trashPath, "done",
                               (fsys.files \ {source, metaPath}) \cup {dest},
                               fsys.metas \ held,
                               {metaPath, source, dest})
    /\ UNCHANGED <<serverVars, sup, ipc, hook, editor>>

\* deletePermanently(trashPath): trashPath is joined to the trash
\* directory as it is given.
DeletePermanently(trashPath) ==
    /\ trashPath # <<>>
    /\ LET target == Join(TrashDir, trashPath)
           metaPath == MetaPath(trashPath)
       IN  fsys' =
             IF target \in fsys.files
             THEN Ran("deletePermanently", trashPath, "done",
                      fsys.files \ {target, metaPath},
                      {m \in fsys.metas :
                         Join(TrashDir, <<MetaName(m[1])>>) # metaPath},
                      {target, metaPath})
             ELSE Ran("deletePermanently", trashPath, "failed",
                      fsys.files, fsys.metas, {target})
    /\ UNCHANGED <<serverVars, sup, ipc, hook, editor>>

\* The paths a caller supplies: canvases, a canvas in a folder, paths with
\* a ".." segment, an absolute path; and the names of trash entries.
CanvasPaths ==
    {<<"a">>, <<"d", "b">>, <<"..", "secret">>, <<"d", "..", "..", "secret">>,
     <<"", "secret">>}
TrashPaths ==
    {<<"T_a">>, <<"T_b">>, <<"..", "secret">>, <<"..", "canvases", "a">>}
NextFs ==
    \/ \E path \in CanvasPaths :
          CreateCanvas(path) \/ DeleteItem(path) \/ TrashItem(path)
    \/ \E path \in TrashPaths : RestoreItem(path) \/ DeletePermanently(path)
SpecFs == Init /\ [][NextFs]_vars

\* ------------------------------------------------------------ useCanvasSync
\* connect() of a render with enabled true: a new socket, wsRef on it.
HookConnect(h) ==
    LET k == h.nsockets + 1
    IN  [h EXCEPT !.sockets[k] = "CONNECTING", !.nsockets = k, !.wsRef = k]

\* The effect cleanup: the timer of reconnectTimerRef is cleared, the
\* socket of wsRef is closed and wsRef is reset.
HookCleanup(h) ==
    [h EXCEPT !.armed = @ \ {h.reconnectTimerRef},
              !.sockets = IF h.wsRef # NoSocket
                          THEN [@ EXCEPT ![h.wsRef] = "CLOSING"] ELSE @,
              !.wsRef = NoSocket,
              !.active = FALSE]

\* The effect runs with enabled true: mount, or enabled turned on.
EffectRuns ==
    /\ ~hook.active
    /\ hook.nsockets < MaxSockets
    /\ hook' = [HookConnect(hook) EXCEPT !.active = TRUE]
    /\ UNCHANGED <<serverVars, sup, ipc, fsys, editor>>

\* enabled turned off, or the component unmounts: the cleanup runs.
EffectCleanup ==
    /\ hook.active
    /\ hook' = HookCleanup(hook)
    /\ UNCHANGED <<serverVars, sup, ipc, fsys, editor>>

\* A dependency of the effect changed (the port, a callback) with enabled
\* still true: the cleanup and the new effect run in one commit.
EffectReruns ==
    /\ hook.active
    /\ hook.nsockets < MaxSockets
    /\ hook' = [HookConnect(HookCleanup(hook)) EXCEPT !.active = TRUE]
    /\ UNCHANGED <<serverVars, sup, ipc, fsys, editor>>

\* ws.onopen
SocketOpens(k) ==
    /\ hook.sockets[k] = "CONNECTING"
    /\ hook' = [hook EXCEPT !.sockets[k] = "OPEN"]
    /\ UNCHANGED <<serverVars, sup, ipc, fsys, editor>>

\* ws.onclose of socket k, closed by the cleanup, by the server or by a
\* failed connection: wsRef is reset whatever it refers to, and the
\* reconnect is scheduled because the enabled the handler closed over is
\* the true of the render that opened the socket.
SocketCloses(k) ==
    /\ hook.sockets[k] \in {"CONNECTING", "OPEN", "CLOSING"}
    /\ hook' = [hook EXCEPT !.sockets[k] = "CLOSED", !.wsRef = NoSocket,
                            !.reconnectTimerRef = k, !.armed = @ \cup {k}]
    /\ UNCHANGED <<serverVars, sup, ipc, fsys, editor>>

\* The reconnect timer armed by socket k fires: connect() of the render
\* that opened k, whose enabled is true.
ReconnectTimer(k) ==
    /\ k \in hook.armed
    /\ hook.nsockets < MaxSockets
    /\ hook' = HookConnect([hook EXCEPT !.armed = @ \ {k}])
    /\ UNCHANGED <<serverVars, sup, ipc, fsys, editor>>

NextHook ==
    \/ EffectRuns
    \/ EffectCleanup
    \/ EffectReruns
    \/ \E k \in 1..MaxSockets :
          SocketOpens(k) \/ SocketCloses(k) \/ ReconnectTimer(k)
SpecHook == Init /\ [][NextHook]_vars

\* ---------------------------------------------------------- ExcalidrawCanvas
\* handleChange(elements, appState, files): the scene is kept in
\* lastDataRef and the autosave timer is armed anew with it.
HandleChange(e, origin) ==
    IF e.selectedFile = NoFile THEN e
    ELSE LET scene == SceneOf(e.selectedFile, origin)
         IN  [e EXCEPT !.lastDataRef = scene, !.saveTimer = scene]

\* The user edits the scene.
UserEdits ==
    /\ editor.selectedFile # NoFile
    /\ editor' = HandleChange(editor, "user")
    /\ UNCHANGED <<serverVars, sup, ipc, fsys, hook>>

\* onSync(state): a canvas_sync frame of the server is applied with
\* updateScene, which the editor reports through handleChange like any
\* change; isSyncingRef is set and a timer is armed to reset it.
OnSync ==
    /\ editor.selectedFile # NoFile
    /\ editor.resets < MaxResets
    /\ editor' = HandleChange([editor EXCEPT !.isSyncingRef = TRUE,
                                             !.resets = @ + 1], "sync")
    /\ UNCHANGED <<serverVars, sup, ipc, fsys, hook>>

\* setTimeout(() => { isSyncingRef.current = false }, 100)
SyncingReset ==
    /\ editor.resets > 0
    /\ editor' = [editor EXCEPT !.resets = @ - 1, !.isSyncingRef = FALSE]
    /\ UNCHANGED <<serverVars, sup, ipc, fsys, hook>>

\* The autosave timer fires, 1 s after the change: the scene it closed
\* over is saved to the path it closed over if that is still the current
\* file, and sent to the server unless isSyncingRef is set by now.
SaveTimerFires ==
    /\ editor.saveTimer # NoData
    /\ LET scene == editor.saveTimer
           e == [editor EXCEPT !.saveTimer = NoData]
       IN  editor' =
             IF e.currentFileRef # scene.file THEN e
             ELSE [e EXCEPT !.disk[scene.file] = scene,
                            !.sent = IF e.isSyncingRef THEN @ ELSE scene]
    /\ UNCHANGED <<serverVars, sup, ipc, fsys, hook>>

\* forceSave(): lastDataRef is written to the file of currentFileRef.
ForceSave(e) ==
    IF e.currentFileRef = NoFile \/ e.lastDataRef = NoData THEN e
    ELSE [e EXCEPT !.disk[e.currentFileRef] = e.lastDataRef]

\* The user selects a file: loadFile clears the autosave timer, saves the
\* file it leaves with forceSave and makes the new file current.
SelectFile(file) ==
    /\ editor.selectedFile # file
    /\ LET e == [editor EXCEPT !.selectedFile = file, !.saveTimer = NoData]
           saved == IF e.currentFileRef # NoFile /\ e.currentFileRef # file
                    THEN ForceSave(e) ELSE e
       IN  editor' = [saved EXCEPT !.currentFileRef = file]
    /\ UNCHANGED <<serverVars, sup, ipc, fsys, hook>>

NextEditor ==
    \/ \E file \in Files : SelectFile(file)
    \/ UserEdits
    \/ OnSync
    \/ SyncingReset
    \/ SaveTimerFires
SpecEditor == Init /\ [][NextEditor]_vars

\* ------------------------------------------- mcp:start / mcp:stop handlers
\* if (serverCtx.mcpProcess) { await serverCtx.mcpProcess.stop();
\* serverCtx.mcpProcess = null }: stop() resolves in the call, so nothing
\* runs in between.
StopManager(st) ==
    IF st.ctx.mcpProcess = NoInst THEN st
    ELSE [st EXCEPT !.managers[st.ctx.mcpProcess] = "stopped",
                    !.ctx.mcpProcess = NoInst]

\* serverCtx.canvasServer = new CanvasServer(validPort);
\* await serverCtx.canvasServer.start(): run r waits for the listen
\* callback.
CreateServer(st, r) ==
    LET n == st.nservers + 1
    IN  [st EXCEPT !.servers[n] = "starting", !.ctx.canvasServer = n,
                   !.nservers = n,
                   !.runs[r] = [kind |-> "start", pc |-> "awaitServerStart",
                                srv |-> n]]

\* What follows the stopping of the old objects in a run of the kind.
AfterStops(st, r, kind) ==
    IF kind = "start" THEN CreateServer(st, r)
    ELSE [st EXCEPT !.runs[r] = [kind |-> "stop", pc |-> "awaitSettings",
                                 srv |-> NoInst]]

\* A handler up to its first await that waits: the manager of the context
\* is stopped; the server of the context, if any, is told to stop and the
\* run waits for its close callback.
Enter(r, kind) ==
    /\ ipc.runs[r].pc = "idle"
    /\ ipc.nservers < MaxInst
    /\ LET st == StopManager(ipc)
           s == st.ctx.canvasServer
       IN  ipc' = IF s # NoInst
                  THEN [st EXCEPT !.servers[s] = "stopped",
                                  !.runs[r] = [kind |-> kind,
                                               pc |-> "awaitServerStop",
                                               srv |-> s]]
                  ELSE AfterStops(st, r, kind)
    /\ UNCHANGED <<serverVars, sup, fsys, hook, editor>>

\* mcp:start
McpStart(r) == Enter(r, "start")
\* mcp:stop
McpStop(r) == Enter(r, "stop")

\* The close callback of the server resolved stop(): the run clears
\* serverCtx.canvasServer, whatever it refers to by now, and goes on.
ServerStopped(r) ==
    /\ ipc.runs[r].pc = "awaitServerStop"
    /\ ipc.nservers < MaxInst
    /\ ipc' = AfterStops([ipc EXCEPT !.ctx.canvasServer = NoInst],
                         r, ipc.runs[r].kind)
    /\ UNCHANGED <<serverVars, sup, fsys, hook, editor>>

\* The listen callback resolved start(): the run constructs and starts the
\* manager, start() resolving in the call, and waits for saveSettings.
ServerStarted(r) ==
    /\ ipc.runs[r].pc = "awaitServerStart"
    /\ ipc.nmanagers < MaxInst
    /\ LET n == ipc.nmanagers + 1
           s == ipc.runs[r].srv
       IN  ipc' = [ipc EXCEPT !.servers[s] = IF @ = "starting" THEN "started" ELSE @,
                              !.managers[n] = "started",
                              !.nmanagers = n,
                              !.ctx.mcpProcess = n,
                              !.runs[r].pc = "awaitSettings"]
    /\ UNCHANGED <<serverVars, sup, fsys, hook, editor>>

\* loadSettings / saveSettings resolved: the handler returns.
SettingsSaved(r) ==
    /\ ipc.runs[r].pc = "awaitSettings"
    /\ ipc' = [ipc EXCEPT !.runs[r] = [kind |-> "none", pc |-> "idle",
                                       srv |-> NoInst],
                          !.completed = ipc.runs[r].kind]
    /\ UNCHANGED <<serverVars, sup, fsys, hook, editor>>

NextIpc ==
    \E r \in 1..MaxRuns :
        \/ McpStart(r)
        \/ McpStop(r)
        \/ ServerStopped(r)
        \/ ServerStarted(r)
        \/ SettingsSaved(r)
SpecIpc == Init /\ [][NextIpc]_vars

\* ------------------------------------------------------ the whole program
Next ==
    \/ NextServer
    \/ NextSup
    \/ NextFs
    \/ NextHook
    \/ NextEditor
    \/ NextIpc

Spec == Init /\ [][Next]_vars

\* ---------------------------------------------------------------- claims
\* The last handler run served a request on route.
Served(route) == Len(io) > 0 /\ io[1].ev = "req" /\ io[1].route = route
ServedOneOf(routes) == Len(io) > 0 /\ io[1].ev = "req" /\ io[1].route \in routes

\* io[j] is a canvas_sync frame that carries exactly the store's contents.
IsStoreSync(j) ==
    /\ io[j].ev = "send"
    /\ io[j].frame.type = "canvas_sync"
    /\ io[j].frame.data.elements = MapValues(elements)

MutationRoutes ==
    {"POST /canvas", "POST /elements", "PUT /elements/:id", "DELETE /elements/:id",
     "POST /clear", "POST /api/elements", "PUT /api/elements/:id",
     "DELETE /api/elements/:id", "DELETE /api/elements/clear",
     "POST /api/elements/batch", "POST /api/elements/sync"}

\* C1: whenever a REST mutation endpoint acknowledges a request (HTTP 200),
\* every attached open peer was handed, earlier in the same handler run, a
\* canvas_sync frame whose elements are the store's contents after the
\* mutation.
C1_SyncBeforeAck ==
    ServedOneOf(MutationRoutes) =>
        \A i \in DOMAIN io :
            (io[i].ev = "http" /\ io[i].call = 0 /\ io[i].status = 200) =>
                \A p \in OpenClients :
                    \E j \in 1..(i - 1) : IsStoreSync(j) /\ p \in io[j].to

\* A batch create that put two elements in the store was acknowledged while
\* one peer was open and another was closing.
C1_Witness ==
    /\ Served("POST /api/elements/batch")
    /\ io[Len(io)].ev = "http" /\ io[Len(io)].status = 200
    /\ Len(elements) = 2
    /\ OpenClients # {}
    /\ clients # OpenClients

\* C2 (as claimed): whenever the handler of an inbound WebSocket message of
\* peer p sends frames, it sends canvas_sync frames that carry exactly the
\* store's contents after the mutation, to every other open peer and never
\* to p.
C2_PeerMutationRelaysStore ==
    (Len(io) > 0 /\ io[1].ev = "ws") =>
        \A j \in 2..Len(io) :
            io[j].ev = "send" =>
                /\ IsStoreSync(j)
                /\ io[j].to = OpenClients \ {io[1].from}

\* The result endpoints of the two pending maps, and the map each one reads.
ExportResultRoute == "POST /api/export/image/result"
ViewportResultRoute == "POST /api/viewport/result"
MermaidResultRoute == "POST /api/elements/from-mermaid/result"
PendingOf(route) ==
    IF route = ExportResultRoute THEN pendingExports
    ELSE IF route = ViewportResultRoute THEN pendingViewports
    ELSE {}

\* The step is a handler run that served a result for request r, which was
\* pending before it.
ResultFor(r) ==
    /\ Len(io') > 0
    /\ io'[1].ev = "req"
    /\ io'[1].route \in {ExportResultRoute, ViewportResultRoute}
    /\ "requestId" \in DOMAIN io'[1].body
    /\ io'[1].body.requestId = r
    /\ r \in PendingOf(io'[1].route)
SuccessFor(r) == ResultFor(r) /\ "error" \notin DOMAIN io'[1].body
ErrorFor(r) == ResultFor(r) /\ "error" \in DOMAIN io'[1].body

\* What the waiting call answers for the result body a peer posted.
Answer(route, body) ==
    IF route = ExportResultRoute
    THEN [success |-> TRUE, format |-> body.format, data |-> body.data]
    ELSE [success |-> TRUE,
          message |-> IF "message" \in DOMAIN body THEN body.message
                      ELSE "Viewport updated"]

\* The step writes a response of the parked call r.
Answers(r) == \E j \in DOMAIN io' : io'[j].ev = "http" /\ io'[j].call = r

C3_Step ==
    \A r \in 1..MaxReq :
        /\ SuccessFor(r) =>
              LET answer == Answer(io'[1].route, io'[1].body)
              IN  /\ r \notin pendingExports' \cup pendingViewports'
                  /\ r \notin timers'
                  /\ calls'[r].state = "fulfilled"
                  /\ calls'[r].resp = <<[status |-> 200, body |-> answer]>>
                  /\ \E j \in DOMAIN io' : io'[j] = Http(r, 200, answer)
        /\ calls[r].resp # <<>> => (calls'[r].resp = calls[r].resp /\ ~Answers(r))
        /\ Len(calls'[r].resp) <= 1

\* C3: the first result without an error that is posted for a pending
\* export or viewport request removes the pending entry, cancels its timer
\* and completes the waiting call with the posted payload; a call gets at
\* most one response, and once it has one, no later result or timer writes
\* another or changes it.
C3_FirstResultWins == [][C3_Step]_vars

\* A second result, with another payload, was posted for an export that the
\* first result had completed: the call keeps its one response.
C3_Witness ==
    /\ Served(ExportResultRoute)
    /\ "data" \in DOMAIN io[1].body
    /\ "requestId" \in DOMAIN io[1].body
    /\ LET r == io[1].body.requestId
       IN  /\ calls[r].state = "fulfilled"
           /\ Len(calls[r].resp) = 1
           /\ calls[r].resp[1].body.data # io[1].body.data
           /\ Len(io) = 2

TimeoutText(kind) ==
    IF kind = "export" THEN "Export timed out after 30 seconds"
    ELSE "Viewport request timed out after 10 seconds"

C4_Step ==
    \A r \in 1..MaxReq :
        (Len(io') > 0 /\ io'[1] = Timer(r) /\ calls[r].state = "pending") =>
            /\ r \notin pendingExports' \cup pendingViewports'
            /\ calls'[r].state = "rejected"
            /\ calls'[r].resp = <<[status |-> 500,
                                   body |-> [success |-> FALSE,
                                             error |-> TimeoutText(calls[r].kind)]]>>
            /\ Answers(r)

\* C4: every accepted export or viewport call is eventually answered, and
\* then its pending entry and its timer are gone; a pending entry exists
\* only while its timer is armed; and when the timer runs before a result
\* without an error has come, it removes the entry and the call fails with
\* HTTP 500 and the time-out text.
C4_EveryCallAnswered ==
    /\ \A r \in 1..MaxReq :
          (calls[r].state = "pending") ~>
              (/\ calls[r].state \in {"fulfilled", "rejected"}
               /\ Len(calls[r].resp) = 1
               /\ r \notin pendingExports \cup pendingViewports \cup timers)
    /\ [](\A r \in pendingExports \cup pendingViewports :
              r \in timers /\ calls[r].state = "pending")
    /\ [][C4_Step]_vars

\* The timer of a viewport call ran while the call was parked: the call has
\* failed with HTTP 500 and its entry is gone.
C4_Witness ==
    /\ Len(io) = 2
    /\ \E r \in 1..MaxReq :
          /\ io[1] = Timer(r)
          /\ calls[r].kind = "viewport"
          /\ calls[r].state = "rejected"
          /\ calls[r].resp[1].status = 500
          /\ r \notin pendingViewports

\* The step is a handler run that served a request on route.
Serves(route) == Len(io') > 0 /\ io'[1].ev = "req" /\ io'[1].route = route

\* C5 (as claimed): a result posted to any of the three result endpoints
\* with a requestId that is not in the endpoint's pending map is answered
\* HTTP 200 with success, and changes no pending map, no waiting call and no
\* element.  The from-mermaid endpoint has no pending map in the code, so
\* every requestId it is given is one that is not pending.
C5_UnknownResultAccepted ==
    [][(/\ Len(io') > 0
        /\ io'[1].ev = "req"
        /\ io'[1].route \in {ExportResultRoute, ViewportResultRoute, MermaidResultRoute}
        /\ "requestId" \in DOMAIN io'[1].body
        /\ io'[1].body.requestId \notin PendingOf(io'[1].route))
       => (/\ io' = <<io'[1], Http(0, 200, [success |-> TRUE])>>
           /\ UNCHANGED <<corrVars, storeVars>>)]_vars

MermaidRoute == "POST /api/elements/from-mermaid"

\* C6 (as claimed): with at least one peer attached, a from-mermaid call
\* with a diagram broadcasts a mermaid_convert frame that carries a
\* requestId, and writes no response in the handler run that accepts it (the
\* response waits for the peer's result).
C6_MermaidCallParked ==
    (Served(MermaidRoute) /\ "mermaidDiagram" \in DOMAIN io[1].body /\ clients # {}) =>
        /\ \E j \in DOMAIN io :
              /\ io[j].ev = "send"
              /\ io[j].frame.type = "mermaid_convert"
              /\ "requestId" \in DOMAIN io[j].frame
        /\ \A j \in DOMAIN io : io[j].ev # "http"

\* C7 (as claimed): with no peer attached, a from-mermaid call with a
\* diagram is answered HTTP 503 with success false and nothing is broadcast.
C7_MermaidUnavailable ==
    (Served(MermaidRoute) /\ "mermaidDiagram" \in DOMAIN io[1].body /\ clients = {}) =>
        io = <<io[1], Http(0, 503, [success |-> FALSE])>>

\* C8 (as claimed): an export call with a valid format, or a viewport call,
\* made while no peer is attached is answered HTTP 503, registers nothing,
\* arms no timer and sends no frame; made while a peer is attached, it hands
\* the request frame to at least one peer.
C8_UnavailableOrAsked ==
    [][((Serves("POST /api/export/image") /\ io'[1].body.format \in Formats)
         \/ Serves("POST /api/viewport"))
       => IF clients = {}
          THEN /\ io' = <<io'[1], Http(0, 503, [success |-> FALSE])>>
               /\ UNCHANGED corrVars
          ELSE \E j \in DOMAIN io' :
                  /\ io'[j].ev = "send"
                  /\ io'[j].to # {}
                  /\ io'[j].frame.type \in {"export_image_request", "set_viewport"}]_vars

C9_Step ==
    \A r \in 1..MaxReq :
        /\ ErrorFor(r) =>
              /\ UNCHANGED <<pendingExports, pendingViewports, timers, calls>>
              /\ io' = <<io'[1], Warn(r, io'[1].body.error),
                         Http(0, 200, [success |-> TRUE])>>
        /\ (SuccessFor(r) /\ reported[r] # NoError) =>
              /\ calls'[r].state = "fulfilled"
              /\ calls'[r].resp[1].body = Answer(io'[1].route, io'[1].body)
        /\ (calls[r].state = "pending" /\ calls'[r].state = "rejected") =>
              io'[1] = Timer(r)
        /\ r \in pendingExports' \cup pendingViewports' =>
              (calls'[r].state = "pending" /\ r \in timers')

\* C9: an error that a peer reports for a pending export or viewport request
\* is logged and acknowledged, and leaves the pending entry, its timer and
\* the waiting call as they were; a later result without an error still
\* completes the call with its payload; an entry that is pending has its call
\* waiting and its timer armed; and a waiting call fails only in the run of
\* its deadline timer.
C9_PeerErrorKeepsWaiting == [][C9_Step]_vars

\* A peer has reported an error for an export request while a second peer is
\* open: the entry is still pending, its timer armed, its call unanswered.
C9_Witness ==
    /\ Served(ExportResultRoute)
    /\ "error" \in DOMAIN io[1].body
    /\ Len(io) = 3
    /\ LET r == io[1].body.requestId
       IN  /\ reported[r] = io[1].body.error
           /\ r \in pendingExports
           /\ r \in timers
           /\ calls[r].resp = <<>>
    /\ Cardinality(OpenClients) = 2

\* C10 (as claimed): a correlated call that fails after a peer reported an
\* error for it is answered HTTP 500 with the peer's message as its error
\* text.  Error texts are atoms here; the text the code gives a failed call
\* is the fixed time-out text, which does not include the peer's message.
C10_FailureCarriesPeerMessage ==
    [][\A r \in 1..MaxReq :
          (calls[r].state = "pending" /\ calls'[r].state = "rejected"
           /\ reported[r] # NoError)
          => (/\ calls'[r].resp[1].status = 500
              /\ calls'[r].resp[1].body.error = reported[r])]_vars

\* C11: on each of the three result routes (from-mermaid, export image,
\* viewport) a body without requestId is answered with HTTP 400, and the
\* pending maps, the timers and the parked calls are left as they were.
C11_MissingRequestIdRejected ==
    [][(/\ Len(io') > 0
        /\ io'[1].ev = "req"
        /\ io'[1].route \in {MermaidResultRoute, ExportResultRoute,
                             ViewportResultRoute}
        /\ "requestId" \notin DOMAIN io'[1].body)
       => (/\ Len(io') = 2
           /\ io'[2].ev = "http"
           /\ io'[2].status = 400
           /\ UNCHANGED corrVars)]_vars

\* The last handler run created the snapshot named n.
SnapshotCreated(n) ==
    /\ Len(io) = 2
    /\ io[1].ev = "req"
    /\ io[1].route = "POST /api/snapshots"
    /\ io[2].status = 200
    /\ io[2].body.name = n
SnapshotKeys == {Trim(body.name) : body \in {b \in SnapshotBodies : "name" \in DOMAIN b}} \ {""}

\* C12: a step that creates the snapshot n files under n the elements the
\* store holds, in the store's order; every other step, whatever it does to
\* the store, leaves the elements filed under n as they are; and
\* GET /api/snapshots/:name returns the elements filed under the name.
C12_SnapshotFrozen ==
    [][/\ \A n \in SnapshotKeys :
            IF SnapshotCreated(n)'
            THEN /\ MapHas(snapshots', n)
                 /\ MapGet(snapshots', n).elements = MapValues(elements)
            ELSE MapHas(snapshots, n)
                 => /\ MapHas(snapshots', n)
                    /\ MapGet(snapshots', n).elements = MapGet(snapshots, n).elements
       /\ (/\ Len(io') = 2
           /\ io'[1].ev = "req"
           /\ io'[1].route = "GET /api/snapshots/:name"
           /\ io'[2].status = 200)
          => io'[2].body.snapshot.elements
               = MapGet(snapshots, io'[1].body.name).elements]_vars

\* A snapshot is read back after the store has moved on from it.
C12_Witness ==
    /\ Len(io) = 2
    /\ io[1].ev = "req"
    /\ io[1].route = "GET /api/snapshots/:name"
    /\ io[2].status = 200
    /\ io[2].body.snapshot.elements # <<>>
    /\ io[2].body.snapshot.elements # MapValues(elements)
    /\ elements # <<>>

\* The last handler run restored the snapshot named n.
SnapshotRestored(n) ==
    /\ Len(io) > 0
    /\ io[1].ev = "req"
    /\ io[1].route = "restore_snapshot"
    /\ io[1].body.name = n
    /\ io[Len(io)].status = 200

PatchRun == Len(io) > 0 /\ "updates" \in DOMAIN io[1]
PatchedStored == PatchRun' /\ MapHas(elements, io'[1].id) /\ elements' # elements

\* C14: the key of every store entry is the id of its element, and no
\* patch of a stored element changes the element's id.
C14_IdNeverRewritten ==
    [][/\ \A i \in DOMAIN elements' : elements'[i].key = IdOf(elements'[i].el)
       /\ PatchedStored
          => /\ MapHas(elements', io'[1].id)
             /\ IdOf(MapGet(elements', io'[1].id)) = IdOf(MapGet(elements, io'[1].id))]_vars

\* C15: every stored element has a non-empty id, and no two stored elements
\* have the same id (the store lists its elements in insertion order).
C15_IdsSetAndUnique ==
    /\ \A i \in DOMAIN elements : IdOf(elements[i].el) \notin {Undef, ""}
    /\ \A i, j \in DOMAIN elements :
          i # j => IdOf(elements[i].el) # IdOf(elements[j].el)

\* The step is a patch that was applied to a stored element: the element
\* was found and, on the REST routes, the answer is 200.
PatchApplied ==
    /\ PatchRun'
    /\ MapHas(elements, io'[1].id)
    /\ io'[1].ev = "req" => io'[Len(io')].status = 200
\* The fields a patch stamps by itself.
VersionFields == {"version", "updatedAt"}

\* C16: a patch with field set D leaves every field that is not in D as it
\* was (the angle among them; the fields the patch stamps by itself are set
\* aside), and gives every field of D the value D has for it.
C16_PatchFrame ==
    [][PatchApplied
       => LET id == io'[1].id
              D == io'[1].updates
              old == MapGet(elements, id)
              new == MapGet(elements', id)
          IN  /\ MapHas(elements', id)
              /\ \A f \in ((DOMAIN old) \cup (DOMAIN new)) \ ((DOMAIN D) \cup VersionFields) :
                    /\ f \in DOMAIN old
                    /\ f \in DOMAIN new
                    /\ new[f] = old[f]
              /\ \A f \in DOMAIN D : f \in DOMAIN new /\ new[f] = D[f]]_vars

\* el.version, 0 when the element has none
VersionOf(el) == IF "version" \in DOMAIN el THEN el.version ELSE 0

\* C17: every stored element has a version of at least 1, and a patch that
\* is applied to a stored element raises its version by exactly 1.
C17_VersionCounts ==
    [][/\ \A i \in DOMAIN elements' : VersionOf(elements'[i].el) >= 1
       /\ PatchApplied
          => /\ MapHas(elements', io'[1].id)
             /\ VersionOf(MapGet(elements', io'[1].id))
                  = VersionOf(MapGet(elements, io'[1].id)) + 1]_vars

\* C18: a patch that is applied to a stored element leaves its type tag as
\* it was.
C18_TypeNeverChanges ==
    [][PatchApplied
       => /\ MapHas(elements', io'[1].id)
          /\ TypeOf(MapGet(elements', io'[1].id))
               = TypeOf(MapGet(elements, io'[1].id))]_vars

\* C19: no stored element is marked deleted.
C19_NoDeletedStored ==
    \A i \in DOMAIN elements :
        "isDeleted" \in DOMAIN elements[i].el => elements[i].el.isDeleted = FALSE

\* C20: every stored element has passed validation: its type is one of the
\* closed set of element types.
C20_StoredTypesValid ==
    \A i \in DOMAIN elements : TypeOf(elements[i].el) \in ElementTypes

\* A create body the claim calls invalid: its type is outside the closed
\* set, or it has no x, or no y.
InvalidCreate(body) ==
    \/ TypeOf(body) \notin ElementTypes
    \/ "x" \notin DOMAIN body
    \/ "y" \notin DOMAIN body

\* C21: POST /api/elements with an invalid body is answered 400 with
\* success=false; no frame is sent, and the store and the scene stay as
\* they were.
C21_InvalidCreateRejected ==
    [][(/\ Len(io') > 0
        /\ io'[1].ev = "req"
        /\ io'[1].route = "POST /api/elements"
        /\ InvalidCreate(io'[1].body))
       => (/\ io' = <<io'[1], Http(0, 400, [success |-> FALSE])>>
           /\ UNCHANGED <<storeVars, snapshots>>)]_vars

\* An invalid create has been rejected while the store held an element and
\* a peer was open.
C21_Witness ==
    /\ Len(io) = 2
    /\ io[1].ev = "req"
    /\ io[1].route = "POST /api/elements"
    /\ InvalidCreate(io[1].body)
    /\ io[2].status = 400
    /\ elements # <<>>
    /\ OpenClients # {}

\* The routes that address one element by the id of the path.
ByIdRoutes ==
    {"GET /elements/:id", "PUT /elements/:id", "DELETE /elements/:id",
     "GET /api/elements/:id", "PUT /api/elements/:id", "DELETE /api/elements/:id"}
\* The step served a request by id for an id the store does not hold.
AbsentIdServed ==
    /\ Len(io') > 0
    /\ io'[1].ev = "req"
    /\ io'[1].route \in ByIdRoutes
    /\ ~MapHas(elements, io'[1].id)
\* The step answered 404 and did nothing else.
NotFoundOnly ==
    /\ Len(io') = 2
    /\ io'[2].ev = "http"
    /\ io'[2].status = 404
    /\ UNCHANGED <<storeVars, snapshots>>
\* The step served GET /api/snapshots/:name for a name the registry lacks.
AbsentNameServed ==
    /\ Len(io') > 0
    /\ io'[1].ev = "req"
    /\ io'[1].route = "GET /api/snapshots/:name"
    /\ ~MapHas(snapshots, io'[1].body.name)

\* C22 (as claimed): every GET, PUT and DELETE by id for an id the store
\* does not hold is answered 404, sends no frame and leaves the store and
\* the snapshots as they were; so is GET /api/snapshots/:name for a name
\* the registry lacks.
C22_AbsentIsNotFound ==
    [][/\ AbsentIdServed => NotFoundOnly
       /\ AbsentNameServed => NotFoundOnly]_vars

\* The body of the PUT the step served passes UpdateElementSchema: a type,
\* when given, is one of the closed set.
PatchBodyAccepted == TypeOf(io'[1].updates) \in ElementTypes \cup {Undef}

\* C22 (amended): the same, but for a PUT /api/elements/:id whose body the
\* update schema rejects, which is answered 400 whether or not the id is
\* in the store; that answer too sends no frame and changes nothing.
C22_AbsentIsNotFoundOrInvalid ==
    [][/\ AbsentIdServed
          => IF io'[1].route = "PUT /api/elements/:id" /\ ~PatchBodyAccepted
             THEN /\ io' = <<io'[1], Http(0, 400, [success |-> FALSE])>>
                  /\ UNCHANGED <<storeVars, snapshots>>
             ELSE NotFoundOnly
       /\ AbsentNameServed => NotFoundOnly]_vars

\* A request by id for an absent id has been answered 404 while the store
\* held an element, the registry a snapshot, and a peer was open.
C22_Witness ==
    /\ Len(io) = 2
    /\ io[1].ev = "req"
    /\ io[1].route \in ByIdRoutes
    /\ ~MapHas(elements, io[1].id)
    /\ io[2].status = 404
    /\ elements # <<>>
    /\ snapshots # <<>>
    /\ OpenClients # {}

\* The step served POST /api/elements/sync with an element list.
SyncServed ==
    /\ Len(io') > 0
    /\ io'[1].ev = "req"
    /\ io'[1].route = "POST /api/elements/sync"
    /\ "elements" \in DOMAIN io'[1].body
\* After the sync of list L the store lists L, and the response counts the
\* store before and after.
SyncReplaces(L) ==
    /\ MapValues(elements') = L
    /\ io'[Len(io')].status = 200
    /\ io'[Len(io')].body.beforeCount = Len(elements)
    /\ io'[Len(io')].body.afterCount = Len(elements')
    /\ io'[Len(io')].body.afterCount = Len(L)
\* The ids of the list are pairwise distinct.
DistinctIds(L) == \A i, j \in DOMAIN L : i # j => IdOf(L[i]) # IdOf(L[j])

\* C23 (as claimed): after POST /api/elements/sync with the list L the
\* store lists exactly L, in order; beforeCount is the size of the store
\* before, afterCount its size after and the length of L.
C23_SyncReplacesStore ==
    [][SyncServed => SyncReplaces(io'[1].body.elements)]_vars

\* C23 (amended): the same for every list L whose elements have pairwise
\* distinct ids.
C23_SyncReplacesStoreDistinct ==
    [][(SyncServed /\ DistinctIds(io'[1].body.elements))
       => SyncReplaces(io'[1].body.elements)]_vars

\* Two elements of distinct ids have been synced over a store that held
\* something.
C23_Witness ==
    /\ Len(io) > 0
    /\ io[1].ev = "req"
    /\ io[1].route = "POST /api/elements/sync"
    /\ "elements" \in DOMAIN io[1].body
    /\ Len(io[1].body.elements) = 2
    /\ DistinctIds(io[1].body.elements)
    /\ io[Len(io)].body.beforeCount > 0
    /\ MapValues(elements) = io[1].body.elements

\* The step served a create (POST /elements, POST /api/elements) that was
\* answered 200.
PutServed ==
    /\ Len(io') > 0
    /\ io'[1].ev = "req"
    /\ io'[1].route \in {"POST /elements", "POST /api/elements"}
    /\ io'[Len(io')].status = 200

\* C24: a create whose element has an id the store holds replaces the
\* entry where it is, and every other entry stays where and what it was; a
\* create with a new id appends the element after all the others.
C24_PutKeepsOrder ==
    [][PutServed
       => LET element == io'[Len(io')].body.element
              id == element.id
          IN  IF MapHas(elements, id)
              THEN /\ Len(elements') = Len(elements)
                   /\ \A i \in DOMAIN elements :
                         IF elements[i].key = id
                         THEN elements'[i] = [key |-> id, el |-> element]
                         ELSE elements'[i] = elements[i]
              ELSE elements' = Append(elements, [key |-> id, el |-> element])]_vars

\* A create has replaced the first of two stored elements.
C24_Witness ==
    /\ Len(io) > 0
    /\ io[1].ev = "req"
    /\ io[1].route \in {"POST /elements", "POST /api/elements"}
    /\ io[Len(io)].status = 200
    /\ Len(elements) >= 2
    /\ elements[1].key = io[Len(io)].body.element.id

\* The step served a create on the /api routes that was answered 200.
ApiCreateServed ==
    /\ Len(io') > 0
    /\ io'[1].ev = "req"
    /\ io'[1].route \in {"POST /api/elements", "POST /api/elements/batch"}
    /\ io'[Len(io')].status = 200
\* The elements the request asked for and the elements the response gives,
\* index by index.
Asked ==
    IF io'[1].route = "POST /api/elements"
    THEN <<io'[1].body>> ELSE io'[1].body.elements
Given ==
    IF io'[1].route = "POST /api/elements"
    THEN <<io'[Len(io')].body.element>> ELSE io'[Len(io')].body.elements
\* An arrow or a line that refers to a start or an end element.
IsConnector(el) == TypeOf(el) \in {"arrow", "line"}
HasRef(el) == {"start", "end"} \cap DOMAIN el # {}
\* The binding e has on a side is the one the claim describes for the
\* reference r has on that side: there exactly when the element referred to
\* is in the batch or the store, with focus 0 and gap 8, naming an element
\* that is there.
BoundAsClaimed(r, e, ref, binding) ==
    /\ binding \in DOMAIN e
        <=> (ref \in DOMAIN r /\ MapHas(elements', r[ref].id))
    /\ binding \in DOMAIN e
        => /\ e[binding].focus = 0
           /\ e[binding].gap = 8
           /\ MapHas(elements', e[binding].elementId)

\* C25: every arrow or line created, alone or in a batch, with a start or
\* end reference comes out without start and end, with exactly two points
\* of which the first is [0,0], and with a binding of focus 0 and gap 8 for
\* exactly the references whose element is in the batch or the store; no
\* binding names an element that is in neither.
C25_ArrowsResolved ==
    [][ApiCreateServed
       => \A i \in DOMAIN Asked :
            (IsConnector(Asked[i]) /\ HasRef(Asked[i]))
            => /\ {"start", "end"} \cap DOMAIN Given[i] = {}
               /\ "points" \in DOMAIN Given[i]
               /\ Len(Given[i].points) = 2
               /\ Given[i].points[1] = <<0, 0>>
               /\ BoundAsClaimed(Asked[i], Given[i], "start", "startBinding")
               /\ BoundAsClaimed(Asked[i], Given[i], "end", "endBinding")]_vars

\* el.points has at least two entries.
HasTwoPoints(el) == "points" \in DOMAIN el /\ Len(el.points) >= 2

\* C26: every arrow or line a create on the /api routes accepts has at
\* least two points, in the response and in the store, whether or not the
\* request gave points or references; points the request gave are kept.
C26_ConnectorsHavePoints ==
    [][ApiCreateServed
       => \A i \in DOMAIN Asked :
            IsConnector(Asked[i])
            => /\ HasTwoPoints(Given[i])
               /\ MapHas(elements', IdOf(Given[i]))
               /\ HasTwoPoints(MapGet(elements', IdOf(Given[i])))
               /\ "points" \in DOMAIN Asked[i]
                  => Given[i].points = Asked[i].points]_vars

\* JavaScript null
Null == "null"
\* Field f of el has the value v.
FieldIs(el, f, v) == f \in DOMAIN el /\ el[f] = v

\* C27: every element a create on the /api routes returns has the angle the
\* request gave, or 0 when it gave none, and has isDeleted = false,
\* groupIds = [] and boundElements = null where the request did not give
\* them.
C27_DefaultsFilled ==
    [][ApiCreateServed
       => \A i \in DOMAIN Asked :
            /\ FieldIs(Given[i], "angle",
                       IF "angle" \in DOMAIN Asked[i] THEN Asked[i].angle ELSE 0)
            /\ "isDeleted" \notin DOMAIN Asked[i] => FieldIs(Given[i], "isDeleted", FALSE)
            /\ "groupIds" \notin DOMAIN Asked[i] => FieldIs(Given[i], "groupIds", <<>>)
            /\ "boundElements" \notin DOMAIN Asked[i]
               => FieldIs(Given[i], "boundElements", Null)]_vars

\* The canvas_sync frames the step handed out, by their place in io'.
SyncSends ==
    {j \in DOMAIN io' : io'[j].ev = "send" /\ io'[j].frame.type = "canvas_sync"}
\* The peer whose message the step handled, NoPeer for a REST request.
Origin == IF Len(io') > 0 /\ io'[1].ev = "ws" THEN io'[1].from ELSE NoPeer
\* The peers that are open after the step, but for its origin.
OtherOpen == {c \in clients' : readyState'[c] = "OPEN"} \ {Origin}

\* C28: every peer receives the canvas_sync frames in the order in which
\* the store applied the mutations.  A socket delivers frames in the order
\* of the send calls and handlers run one after the other, so this is: a
\* step that changes the store hands, within the step, one canvas_sync
\* frame to every other open peer at once; and a canvas_sync frame carries
\* the scene as the step leaves it, never an earlier one, which but for an
\* inbound canvas_sync lists the store's elements.
C28_SyncInMutationOrder ==
    [][/\ \A j \in SyncSends :
            /\ io'[j].frame.data = canvasState'
            /\ (io'[1].ev = "ws" /\ io'[1].type = "canvas_sync")
               \/ canvasState'.elements = MapValues(elements')
       /\ (elements' # elements /\ OtherOpen # {})
          => /\ Cardinality(SyncSends) = 1
             /\ \A j \in SyncSends : io'[j].to = OtherOpen]_vars

\* A peer's update of a stored element has been relayed to the other peer,
\* with the store's contents after the update.
C28_Witness ==
    /\ Len(io) = 2
    /\ io[1].ev = "ws"
    /\ io[1].type = "element_updated"
    /\ io[2].ev = "send"
    /\ io[2].frame.type = "canvas_sync"
    /\ io[2].to = Peers \ {io[1].from}
    /\ io[2].frame.data.elements = MapValues(elements)
    /\ Len(elements) = 1
    /\ elements[1].el.x = 1

\* The step served a new connection / a close or error event.
Connected == Len(io') > 0 /\ io'[1].ev = "connection"
Detached == Len(io') > 0 /\ io'[1].ev = "close"

\* C29: a new connection adds the peer to the peer set and sends it exactly
\* initial_elements, sync_status and canvas_sync, in that order, each with
\* the store's contents at that moment, within the step and so before any
\* frame of a later mutation; a close or error event removes the peer, and
\* no step sends a frame to a peer that is not in the peer set.
C29_ConnectAndDetach ==
    [][/\ Connected =>
            LET p == io'[1].from
            IN  /\ p \in clients'
                /\ elements' = elements
                /\ Len(io') = 4
                /\ \A j \in 2..4 : io'[j].ev = "send" /\ io'[j].to = {p}
                /\ io'[2].frame = [type |-> "initial_elements",
                                   elements |-> MapValues(elements)]
                /\ io'[3].frame = [type |-> "sync_status",
                                   elementCount |-> Len(elements)]
                /\ io'[4].frame.type = "canvas_sync"
                /\ io'[4].frame.data.elements = MapValues(elements)
       /\ Detached => io'[1].from \notin clients'
       /\ \A j \in DOMAIN io' :
            io'[j].ev = "send" => io'[j].to \subseteq clients']_vars

\* A peer connected to a store that holds an element while another peer
\* was attached.
C29_Witness ==
    /\ Len(io) = 4
    /\ io[1].ev = "connection"
    /\ Len(elements) = 1
    /\ clients = Peers
    /\ io[2].frame.elements = MapValues(elements)

\* The step served a POST /api/elements whose body the schema accepts.
ValidCreate ==
    /\ Len(io') > 0
    /\ io'[1].ev = "req"
    /\ io'[1].route = "POST /api/elements"
    /\ "body" \in DOMAIN io'[1]
    /\ CreateElementSchemaOk(io'[1].body)
\* The clients for which client.send threw in the step.
Threw == {io'[j].to : j \in {k \in DOMAIN io' : io'[k].ev = "throw"}}
\* The clients that were handed an element_created frame in the step.
GotCreated ==
    UNION {io'[j].to : j \in {k \in DOMAIN io' :
                                /\ io'[k].ev = "send"
                                /\ io'[k].frame.type = "element_created"}}

\* C30: a send that fails for one peer during the broadcast of a creation
\* never fails the creation: the caller gets the 200 success response with
\* the element stored, the failing peer is no longer in the peer set, and
\* every other open peer has the element_created frame.
C30_SendFailureContained ==
    [][ValidCreate =>
         /\ io'[Len(io')].status = 200
         /\ io'[Len(io')].body.success
         /\ \E i \in DOMAIN elements' :
               elements'[i].el = io'[Len(io')].body.element
         /\ Threw \cap clients' = {}
         /\ {c \in clients' : readyState'[c] = "OPEN"} \ Threw
               \subseteq GotCreated]_vars

\* The step spawned a child.
Spawned == sup'.spawned > sup.spawned

\* C31: an unexpected exit is answered by a respawn at most three times
\* after a start(): restartCount never exceeds 3, at most 4 children are
\* spawned between one start() and the next, and once the restarts are
\* used up nothing is spawned before start() is called again.
C31_RestartsCapped ==
    /\ sup.restartCount <= MAX_RESTARTS
    /\ sup.sinceStart <= MAX_RESTARTS + 1

\* C31, the part that holds for every use of the manager: the counter
\* stays within the cap, and an exit at the cap schedules nothing.
C31_CountCapped ==
    [][/\ sup'.restartCount <= MAX_RESTARTS
       /\ (sup'.last = "exit" /\ sup.restartCount = MAX_RESTARTS)
            => sup'.restartTimers = sup.restartTimers]_vars

\* C32: once stop() has been called, no child is spawned unless start() is
\* called again: neither the exit of the killed child nor a restart timer
\* that was pending at the time of stop() spawns one.
C32_NoSpawnAfterStop ==
    [][(sup.stopped /\ sup'.last # "start") => ~Spawned]_vars

\* A restart timer that was pending when stop() was called has fired, and
\* the first child is still the only one that was ever spawned.
C32_Witness ==
    /\ sup.stopped
    /\ sup.last = "timer"
    /\ sup.spawned = 1
    /\ sup.children[1] = "exited"
    /\ sup.restartTimers = 0

\* The children of the manager that run and were not sent a signal.
Alive == {c \in 1..MaxChildren : sup.children[c] = "alive"}

\* C35: at most one child of the manager is alive at any time, the handle
\* refers to it, and isRunning() is true exactly when there is one, under
\* every interleaving of start(), stop(), exit events and restart timers.
C35_OneChild ==
    /\ Cardinality(Alive) <= 1
    /\ \A c \in Alive : sup.process = c
    /\ IsRunning <=> Alive # {}

\* The servers and managers that were started and not stopped since.
RunningServers ==
    {i \in 1..MaxInst : ipc.servers[i] \in {"starting", "started"}}
RunningManagers == {i \in 1..MaxInst : ipc.managers[i] = "started"}

\* C36: whatever the interleaving of mcp:start and mcp:stop requests, at
\* most one CanvasServer and one MCPProcessManager are started and not
\* stopped, the server context refers to them, and when an mcp:stop has
\* returned with no other request in flight none is running.
C36_OneServerOneManager ==
    /\ Cardinality(RunningServers) <= 1
    /\ Cardinality(RunningManagers) <= 1
    /\ RunningServers \subseteq {ipc.ctx.canvasServer}
    /\ RunningManagers \subseteq {ipc.ctx.mcpProcess}
    /\ (ipc.completed = "stop" /\ \A r \in 1..MaxRuns : ipc.runs[r].pc = "idle")
         => RunningServers = {} /\ RunningManagers = {}

\* The number a query parameter spells.
NumberOf(str) == (CHOOSE n \in 1..Len(Digits) : Digits[n] = str) - 1
\* A dimension of an element, 0 when it has none.
Dimension(el, f) == IF f \in DOMAIN el THEN el[f] ELSE 0
\* The text in lower case, and whether it has the part in it.
LowerCase(t) ==
    [k \in DOMAIN t |-> CASE t[k] = "H" -> "h" [] t[k] = "I" -> "i" [] OTHER -> t[k]]
Contains(t, part) ==
    \E k \in 0..(Len(t) - Len(part)) : SubSeq(t, k + 1, k + Len(part)) = part
\* The element passes the parameter key of the query as the search is
\* described.
Passes(el, query, key) ==
    CASE key = "type" -> TypeOf(el) = query.type
      [] key = "types" -> \E k \in DOMAIN query.types : TypeOf(el) = query.types[k]
      [] key = "minWidth" -> Dimension(el, "width") >= NumberOf(query.minWidth)
      [] key = "maxWidth" -> Dimension(el, "width") <= NumberOf(query.maxWidth)
      [] key = "minHeight" -> Dimension(el, "height") >= NumberOf(query.minHeight)
      [] key = "maxHeight" -> Dimension(el, "height") <= NumberOf(query.maxHeight)
      [] key = "textContains" ->
            /\ "text" \in DOMAIN el
            /\ Contains(LowerCase(el.text), LowerCase(query.textContains))
      [] OTHER -> key \in DOMAIN el /\ StringOf(el, key) = query[key]

\* C33: a search returns exactly the stored elements, in store order, that
\* pass every parameter of the query (type, types, field equality, the
\* inclusive width and height ranges, textContains without regard to
\* case), count is their number, the answer is 200 also when nothing
\* matches, and the store is left as it was.
C33_SearchFilters ==
    [][(Len(io') > 0 /\ io'[1].ev = "req"
                    /\ io'[1].route = "GET /api/elements/search")
        => LET query == io'[1].query
               expected == SelectSeq(MapValues(elements),
                              LAMBDA el : \A key \in DOMAIN query :
                                             Passes(el, query, key))
           IN  /\ io'[2] = Http(0, 200, [success |-> TRUE,
                                         elements |-> expected,
                                         count |-> Len(expected)])
               /\ elements' = elements]_vars

\* C34: a command given a path with a ".." segment or an absolute path
\* rejects it before it touches the file system, so that no command reads,
\* writes, moves or deletes anything outside canvases/ and trash/.
C34_PathsConfined ==
    /\ (fsys.cmd # "none" /\ Rejected(fsys.path))
         => fsys.result = "rejected" /\ fsys.touched = {}
    /\ \A full \in fsys.touched :
          full # <<>> /\ <<full[1]>> \in {BaseDir, TrashDir}
    /\ <<"secret">> \in fsys.files

\* The sockets of the hook that are open or connecting.
LiveSockets(h) ==
    {k \in 1..MaxSockets : h.sockets[k] \in {"CONNECTING", "OPEN"}}

\* C37: once the cleanup of the hook has run it opens no socket (until the
\* effect runs again): the close event of the socket the cleanup closed
\* schedules no reconnect; and while the hook is enabled at most one of
\* its sockets is open or connecting, with wsRef on it.
C37_NoReconnectAfterCleanup ==
    [][/\ (~hook.active /\ ~hook'.active)
            => /\ hook'.nsockets = hook.nsockets
               /\ hook'.armed \subseteq hook.armed
       /\ hook'.active
            => /\ Cardinality(LiveSockets(hook')) <= 1
               /\ \A k \in LiveSockets(hook') : hook'.wsRef = k]_vars

\* C38: a scene change the editor applied because of a canvas_sync frame
\* of the server is not sent back to the server by that editor (so that
\* the frames one mutation causes come to an end).
C38_NoEcho == editor.sent.origin # "sync"

\* C39: forceSave and the autosave write to a canvas file only scenes the
\* editor produced while that file was the selected one: the content of a
\* file is never the scene of another file.
C39_SavesOwnScene == \A f \in Files : editor.disk[f].file = f
\* The step is POST /canvas, or an inbound canvas_sync, without elements.
CanvasWithoutElements ==
    \E d \in NoElementsDatas :
        PostCanvas(d) \/ \E p \in Peers : WsCanvasSync(p, d)

\* C40: POST /canvas and an inbound canvas_sync frame that carry no
\* elements field leave the element store unchanged in content and order.
C40_StoreKept == [][CanvasWithoutElements => elements' = elements]_vars

====
